---- MODULE Spec2Model ----
(***************************************************************************)
(* KenobiDB: a document store on top of SQLite.  The repository holds four *)
(* evolutions of the same engine, told apart here by the variable variant: *)
(*   "flat"   src/kenobi.py                     one table, no partitions   *)
(*   "col"    src/.features_sandbox/col.py      rows tagged by collection  *)
(*   "coltab" src/.ideas/collections.py         rows tagged by collection  *)
(*                                              and table_name             *)
(*   "tab"    src/.features_sandbox/tables.py   one SQL table per handle   *)
(* Every engine operation is a method run by a caller thread: it validates *)
(* its arguments, enters `with self._lock`, sends its statements to the    *)
(* connection one after another, and leaves the with-block.                *)
(***************************************************************************)
EXTENDS Integers, Sequences, FiniteSets, Bags, TLC

\* ------------------------------------------------------------------ bounds
MaxThreads == 2
MaxSeq == 3
MaxHandles == 2

DefaultLimit == 100
DefaultOffset == 0

Threads == 1..MaxThreads
Variants == {"flat", "col", "coltab", "tab"}
Scenarios == {"base", "pages", "types", "removes", "lists", "patches", "keys", "names", "batches", "purges", "empties", "pool", "renames", "idents", "nokeys", "windows", "waits", "updates", "closes", "drops"}
Main == "documents"

\* ------------------------------------------------------- Python values
\* A Python object: its type name t, its repr s for scalars, its items l
\* for a list and its mapping d for a dict.
PyVal(t, s, l, d) == [t |-> t, s |-> s, l |-> l, d |-> d]
PyStr(s) == PyVal("str", s, <<>>, <<>>)
PyInt(s) == PyVal("int", s, <<>>, <<>>)
PyBool(s) == PyVal("bool", s, <<>>, <<>>)
PyFloat(s) == PyVal("float", s, <<>>, <<>>)
PyNone == PyVal("NoneType", "None", <<>>, <<>>)
PyList(l) == PyVal("list", "", l, <<>>)
PyDict(d) == PyVal("dict", "", <<>>, d)

isinstance(x, t) == x.t = t \/ (t = "int" /\ x.t = "bool")

\* mutant: the fields the document already has win over the patch
dict_update_KeepOld(document, new_dict) ==
    [k \in (DOMAIN document) \cup (DOMAIN new_dict) |->
        IF k \in DOMAIN document THEN document[k] ELSE new_dict[k]]

\* dict.update(new_dict)
dict_update(document, new_dict) ==
    [k \in (DOMAIN document) \cup (DOMAIN new_dict) |->
        IF k \in DOMAIN new_dict THEN new_dict[k] ELSE document[k]]

\* what dict.update(new_dict) raises, "" when it raises nothing: a mapping
\* is merged; anything else is iterated as a sequence of pairs, so that a
\* character of a string is an element of length 1
dict_update_raises(new_dict) ==
    CASE isinstance(new_dict, "dict") -> ""
      [] isinstance(new_dict, "str") -> IF new_dict.s = "" THEN "" ELSE "ValueError"
      [] OTHER -> "TypeError"

\* ------------------------------------------------------------ the codec
\* JSON text is kept as its tokens: a quoted string, a bare literal
\* (number, true, false, null) or an array of such tokens.
Tok(k, lit, items) == [k |-> k, lit |-> lit, items |-> items]

dumps_scalar(x) ==
    CASE x.t = "str" -> Tok("quoted", x.s, <<>>)
      [] x.t = "bool" -> Tok("bare", IF x.s = "True" THEN "true" ELSE "false", <<>>)
      [] x.t = "NoneType" -> Tok("bare", "null", <<>>)
      [] OTHER -> Tok("bare", x.s, <<>>)

dumps_value(x) ==
    IF x.t = "list"
    THEN Tok("array", "", [i \in 1..Len(x.l) |-> dumps_scalar(x.l[i])])
    ELSE dumps_scalar(x)

\* json.dumps(document) for a dict with string keys
dumps(document) == [k \in DOMAIN document |-> dumps_value(document[k])]

loads_scalar(tok) ==
    CASE tok.k = "quoted" -> PyStr(tok.lit)
      [] tok.lit = "true" -> PyBool("True")
      [] tok.lit = "false" -> PyBool("False")
      [] tok.lit = "null" -> PyNone
      [] OTHER -> PyInt(tok.lit)

loads_value(tok) ==
    IF tok.k = "array"
    THEN PyList([i \in 1..Len(tok.items) |-> loads_scalar(tok.items[i])])
    ELSE loads_scalar(tok)

\* json.loads(row[0])
loads(data) == [k \in DOMAIN data |-> loads_value(data[k])]

\* ------------------------------------------------------ SQLite values
Sql(ty, s, items) == [ty |-> ty, s |-> s, items |-> items]
SqlNull == Sql("null", "", <<>>)

\* sqlite3 parameter binding of a Python object
Bindable(x) == x.t \in {"str", "int", "bool", "float", "NoneType"}
bind(x) ==
    CASE x.t = "str" -> Sql("text", x.s, <<>>)
      [] x.t = "int" -> Sql("integer", x.s, <<>>)
      [] x.t = "bool" -> Sql("integer", IF x.s = "True" THEN "1" ELSE "0", <<>>)
      [] x.t = "float" -> Sql("real", x.s, <<>>)
      [] OTHER -> SqlNull

\* json_extract(data, '$.' || key)
json_extract(data, key) ==
    IF key \notin DOMAIN data THEN SqlNull
    ELSE LET tok == data[key] IN
         CASE tok.k = "quoted" -> Sql("text", tok.lit, <<>>)
           [] tok.k = "array" -> Sql("json", "", tok.items)
           [] tok.lit = "true" -> Sql("integer", "1", <<>>)
           [] tok.lit = "false" -> Sql("integer", "0", <<>>)
           [] tok.lit = "null" -> SqlNull
           [] OTHER -> Sql("integer", tok.lit, <<>>)

\* the SQL comparison a = b, true only for two non-NULL equal values
SqlEq(a, b) == a.ty # "null" /\ b.ty # "null" /\ a = b


Min(a, b) == IF a < b THEN a ELSE b

\* -------------------------------------------------------------- state
VARIABLES
    variant,        \* which engine of the repository is running
    scenario,       \* which calls and arguments the callers draw from
    executor,       \* self.executor: the work items submitted so far, in
                    \* submission order, how many of them the worker
                    \* threads have taken, the workers that are running
                    \* one, and whether shutdown was called
    connection,     \* self._connection: "open" or "closed"
    tables,         \* the SQLite file: per table name, its rows and its
                    \* AUTOINCREMENT counter (sqlite_sequence)
    handle,         \* KenobiTable.name of every constructed table handle
    lock,           \* self._lock, a threading.RLock
    process_lock,   \* self._process_lock (flat engine), owner or 0
    pc,             \* position of every caller thread
    call,           \* the operation a thread is in, with its arguments
    loc,            \* the locals of that operation
    ret,            \* what the operation returns or raises
    snap,           \* history: the file as it was when the thread's
                    \* operation entered the with-block
    log             \* history: the bag of the calls that have returned,
                    \* each with its thread (kept by return_logged only)

vars == <<variant, scenario, executor, connection, tables, handle, lock, process_lock, pc, call, loc, ret, snap, log>>

\* ------------------------------------------------------------- inputs
\* The documents, patches and query operands the callers draw from.
D1 == PyDict(("id" :> PyInt("1")) @@ ("key" :> PyStr("value")))
D2 == PyDict(("id" :> PyInt("2")) @@ ("key" :> PyStr("value")))
P1 == PyDict(("key" :> PyStr("other")) @@ ("b" :> PyStr("y")))
NotADict == PyFloat("0.1234")
\* test_malformed_json_in_update: the patch that is not a dict
NotADictText == PyStr("not a dict")

D3 == PyDict(("id" :> PyInt("3")) @@ ("key" :> PyStr("value")))

\* one field k holding the number 1, the string "1", true and null
KInt == PyDict("k" :> PyInt("1"))
KStr == PyDict("k" :> PyStr("1"))
KTrue == PyDict("k" :> PyBool("True"))
KNone == PyDict("k" :> PyNone)

\* test_find_all: documents whose field key holds a list
LAB == PyDict("key" :> PyList(<<PyStr("a"), PyStr("b")>>))
LB == PyDict("key" :> PyList(<<PyStr("b")>>))
\* a document without the field key
LOther == PyDict("other" :> PyInt("1"))
\* a document with a field whose name is the text None
LNone == PyDict("None" :> PyList(<<PyStr("a")>>))

\* test_pagination_all: documents that differ in one field
InDocuments ==
    CASE scenario = "pages" -> {D1, D2, D3}
      [] scenario = "types" -> {KInt, KStr, KTrue, KNone}
      [] scenario \in {"removes", "updates"} -> {KInt, KStr, KTrue}
      [] scenario = "lists" -> {LAB, LB}
      [] scenario = "patches" -> {D1, D2}
      [] scenario = "keys" -> {D1}
      [] scenario = "names" -> {D1, NotADict}
      [] scenario = "batches" -> {D3}
      [] scenario = "purges" -> {D1, D2}
      [] scenario = "empties" -> {LAB, LOther}
      [] scenario \in {"pool", "closes", "drops"} -> {D1}
      [] scenario = "renames" -> {D1, D2}
      [] scenario = "idents" -> {D1}
      [] scenario = "nokeys" -> {LAB, LNone}
      [] scenario = "waits" -> {D1, NotADict}
      [] OTHER -> {D1, D2, NotADict}
InDocumentLists ==
    IF scenario = "batches"
    THEN {PyList(<<D1, D2>>), PyList(<<D2, D1>>), PyList(<<D1, NotADict>>)}
    ELSE {PyList(<<D1, D2>>), PyList(<<D1, NotADict>>), PyStr("not a list")}
\* a patch that adds a field and leaves the others
PB == PyDict("b" :> PyStr("y"))
PC == PyDict("c" :> PyStr("z"))
\* a patch that writes the value D1 and D2 already have
PSame == PyDict("key" :> PyStr("value"))
InPatches ==
    CASE scenario = "patches" -> {P1, NotADictText}
      [] scenario = "keys" -> {PSame}
      [] scenario = "pool" -> {PB, PC}
      [] scenario \in {"closes", "drops"} -> {PB}
      [] scenario = "waits" -> {PSame, NotADictText}
      [] scenario = "updates" -> {PB, KStr}
      [] OTHER -> {P1}
\* test_remove_document: key None, key of an unsupported type, value None;
\* and the empty key
InKeys == {PyStr("key"), PyNone, PyFloat("0.12345"), PyStr("")}
InQueries ==
    CASE scenario = "keys" -> {<<k, PyStr("value")>> : k \in InKeys}
                                  \cup {<<PyStr("key"), PyNone>>}
      [] scenario \in {"pool", "closes", "drops"} -> {<<PyStr("key"), PyStr("value")>>}
      [] scenario = "windows" -> {<<PyStr("key"), PyStr("value")>>, <<PyStr("id"), PyInt("1")>>}
      [] scenario = "waits" -> {<<PyStr("key"), PyStr("value")>>}
      [] scenario \in {"types", "removes", "updates"} ->
                               {<<PyStr("k"), PyInt("1")>>, <<PyStr("k"), PyStr("1")>>,
                                <<PyStr("k"), PyBool("True")>>, <<PyStr("k"), PyNone>>}
      [] OTHER -> {<<PyStr("id"), PyInt("1")>>, <<PyStr("key"), PyStr("value")>>,
                   <<PyStr("key"), PyStr("value OR 1=1")>>}
\* the value_list arguments of find_any and find_all
InValueLists ==
    IF scenario = "empties" THEN {PyList(<<>>), PyList(<<PyStr("a")>>)}
    ELSE IF scenario = "nokeys" THEN {PyList(<<PyStr("a")>>)}
    ELSE        {PyList(<<PyStr("a")>>), PyList(<<PyStr("a"), PyStr("b")>>),
                 PyList(<<PyStr("a"), PyStr("a"), PyStr("b")>>), PyList(<<PyStr("c")>>)}
\* the <<limit, offset>> arguments of all(); the defaults when not given
InWindows ==
    CASE scenario = "pages" -> {<<DefaultLimit, DefaultOffset>>, <<1, 0>>, <<1, 1>>, <<1, 2>>,
                                <<2, 0>>, <<2, 1>>, <<2, 2>>}
      [] scenario = "windows" -> {<<DefaultLimit, DefaultOffset>>, <<0, 0>>, <<1, 0>>,
                                  <<2, DefaultLimit>>}
      [] OTHER -> {<<DefaultLimit, DefaultOffset>>}
\* test_find_any: the key, None and 0.1234
InListKeys ==
    IF scenario = "nokeys" THEN {PyStr("key"), PyNone, PyFloat("0.1234")}
    ELSE {PyStr("key")}
InTableNames == {PyStr("t1"), PyStr("t2")}
Handles == 1..MaxHandles

NoTable == [exists |-> FALSE, rows |-> <<>>, seq |-> 0]
EmptyTable == [exists |-> TRUE, rows |-> <<>>, seq |-> 0]
\* the names the callers pass to table()
InTableArgs ==
    CASE scenario \in {"keys", "pool", "closes"} -> {PyStr("t1")}
      [] scenario = "idents" -> {PyStr("t1"), PyStr("[a b]"), PyStr("a-b")}
      [] OTHER -> InTableNames
\* the names the callers pass to rename()
InNewNames ==
    CASE scenario = "idents" -> {PyStr("t2"), PyStr("[a b]"), PyStr("a-b"), PyStr("")}
      [] scenario = "drops" -> {PyStr("t2")}
      [] OTHER -> {PyStr("t2"), PyStr("t3")}
\* the tables the file can come to hold
TableNames == {Main} \cup {n.s : n \in InTableNames} \cup {"t3", "a b"}

\* the characters of the names above
Spelling(s) ==
    CASE s = "t1" -> <<"t", "1">>
      [] s = "t2" -> <<"t", "2">>
      [] s = "t3" -> <<"t", "3">>
      [] s = "a b" -> <<"a", " ", "b">>
      [] s = "[a b]" -> <<"[", "a", " ", "b", "]">>
      [] s = "a-b" -> <<"a", "-", "b">>
      [] OTHER -> <<>>
\* the letters, digits and the underscore among these characters
WordChars == {"a", "b", "t", "1", "2", "3", "_"}
IsWord(chars) == chars # <<>> /\ \A i \in 1..Len(chars) : chars[i] \in WordChars
IsBracketed(chars) ==
    /\ Len(chars) >= 3
    /\ chars[1] = "[" /\ chars[Len(chars)] = "]"
    /\ \A i \in 2..(Len(chars) - 1) : chars[i] # "]"

\* What SQLite reads where the query text has {self.name} or {new_name}
\* spliced in: a word names the table of that name, [...] names the table
\* whose name stands between the brackets, whatever characters it has, and
\* a text that is neither is a syntax error. (None of the names here
\* starts with a digit or is a keyword.)
SqlName(s) ==
    LET chars == Spelling(s)
        inner == SubSeq(chars, 2, Len(chars) - 1)
    IN IF IsWord(chars) THEN [ok |-> TRUE, name |-> s]
       ELSE IF IsBracketed(chars) /\ \E n \in TableNames : Spelling(n) = inner
       THEN [ok |-> TRUE, name |-> CHOOSE n \in TableNames : Spelling(n) = inner]
       ELSE [ok |-> FALSE, name |-> ""]

NoCall == [op |-> "", key |-> PyNone, value |-> PyNone, doc |-> PyNone,
           collection |-> PyStr("default"), table_name |-> PyStr("default"),
           h |-> 0, limit |-> DefaultLimit, offset |-> DefaultOffset]
NoLoc == [docs |-> <<>>, i |-> 0]
NoSnap == [n \in TableNames |-> NoTable]
NoRet == [kind |-> "none", exc |-> "", b |-> FALSE, n |-> 0, docs |-> <<>>]
RetBool(b) == [NoRet EXCEPT !.kind = "bool", !.b = b]
RetInt(n) == [NoRet EXCEPT !.kind = "int", !.n = n]
RetList(docs) == [NoRet EXCEPT !.kind = "list", !.docs = docs]
RetRaise(exc) == [NoRet EXCEPT !.kind = "raise", !.exc = exc]

\* a file written by an earlier run: one document more than the default
\* window holds, numbered in the order of their insertion
StoredRows == DefaultLimit + 1
Numbered(i) == PyDict(("id" :> PyInt(ToString(i))) @@ ("key" :> PyStr("value")))
StoredTable ==
    [exists |-> TRUE,
     rows |-> [i \in 1..StoredRows |->
                  [id |-> i, data |-> dumps(Numbered(i).d),
                   collection |-> "default", table_name |-> "default"]],
     seq |-> StoredRows]

\* __init__ and _initialize_db: CREATE TABLE IF NOT EXISTS documents, on a
\* new file or (scenario "windows") on the file of an earlier run
Init ==
    /\ variant \in Variants
    /\ scenario \in Scenarios
    /\ executor = [work |-> <<>>, taken |-> 0, running |-> {}, shutdown |-> FALSE]
    /\ connection = "open"
    /\ tables = [n \in TableNames |->
                    IF n = Main /\ variant # "tab"
                    THEN (IF scenario = "windows" THEN StoredTable ELSE EmptyTable)
                    ELSE NoTable]
    /\ handle = [h \in Handles |-> ""]
    /\ lock = [owner |-> 0, count |-> 0]
    /\ process_lock = 0
    /\ pc = [t \in Threads |-> "idle"]
    /\ call = [t \in Threads |-> NoCall]
    /\ loc = [t \in Threads |-> NoLoc]
    /\ ret = [t \in Threads |-> NoRet]
    /\ snap = [t \in Threads |-> NoSnap]
    /\ log = EmptyBag

\* ---------------------------------------------------------- the locks
\* mutant: the lock never makes a caller wait
LockAvailable_Always(t) == TRUE

\* RLock.acquire succeeds when the lock is free or held by the caller
LockAvailable(t) == lock.owner = 0 \/ lock.owner = t

Reads == {"all", "search", "find_any", "find_all"}

\* mutant: the read operations run without `with self._lock`
EnterGuard_ReadsUnlocked(t, c) == c.op \in Reads \/ LockAvailable(t)

\* `with self._lock:` blocks the caller until the lock is available
EnterGuard(t, c) == LockAvailable(t)

\* the operations of the flat engine that also take self._process_lock
TakesProcessLock(op) ==
    op \in {"insert", "insert_many", "remove", "update", "purge"}

\* mutant: the with-block is entered but the lock is not taken
Enter_NotHeld(t, c) ==
    /\ EnterGuard(t, c)
    /\ lock' = lock
    /\ call' = [call EXCEPT ![t] = c]
    /\ pc' = [pc EXCEPT ![t] =
                IF variant = "flat" /\ TakesProcessLock(c.op) THEN "plock" ELSE "run"]
    /\ snap' = [snap EXCEPT ![t] = tables]
    /\ UNCHANGED <<variant, scenario, connection, executor, log, tables, handle, process_lock, loc, ret>>

\* valid arguments: enter `with self._lock`. Where the waiting of a caller
\* is what is looked at (scenario "waits"), reaching the with statement
\* and getting the lock are two steps: the call is made, and the caller
\* stands at `with self._lock` until acquire_lock takes it in.
Enter(t, c) ==
    IF scenario = "waits" /\ pc[t] = "idle"
    THEN /\ call' = [call EXCEPT ![t] = c]
         /\ pc' = [pc EXCEPT ![t] = "called"]
         /\ UNCHANGED <<variant, scenario, connection, executor, log, tables, handle, lock,
                        process_lock, loc, ret, snap>>
    ELSE /\ EnterGuard(t, c)
         /\ lock' = [owner |-> t, count |-> lock.count + 1]
         /\ call' = [call EXCEPT ![t] = c]
         /\ pc' = [pc EXCEPT ![t] =
                     IF variant = "flat" /\ TakesProcessLock(c.op) THEN "plock" ELSE "run"]
         /\ snap' = [snap EXCEPT ![t] = tables]
         /\ UNCHANGED <<variant, scenario, connection, executor, log, tables, handle, process_lock,
                        loc, ret>>

\* RLock.acquire of a caller that stands at `with self._lock`
acquire_lock(t) ==
    /\ pc[t] = "called"
    /\ Enter(t, call[t])

\* what is kept of a call that failed its validation: the operation, and
\* the validated arguments where the scenario is about invalid arguments
Remembered(c) ==
    CASE scenario \in {"patches", "keys"} ->
             [NoCall EXCEPT !.op = c.op, !.key = c.key, !.value = c.value, !.doc = c.doc]
      [] scenario \in {"names", "renames", "idents"} ->
             [NoCall EXCEPT !.op = c.op, !.doc = c.doc, !.collection = c.collection,
                            !.table_name = c.table_name]
      [] OTHER -> [NoCall EXCEPT !.op = c.op]

\* invalid arguments: the exception leaves the method before the with-block.
\* Validation reads nothing but the arguments, so a failing call commutes
\* with every step of the other threads; it is taken while no operation
\* is inside the with-block.
Raise(t, c, exc) ==
    /\ lock.owner = 0
    /\ call' = [call EXCEPT ![t] = Remembered(c)]
    /\ ret' = [ret EXCEPT ![t] = RetRaise(exc)]
    /\ pc' = [pc EXCEPT ![t] = "raised"]
    /\ UNCHANGED <<variant, scenario, connection, executor, snap, log, tables, handle, lock, process_lock, loc>>

\* `with self._lock, self._process_lock`: the second context manager
acquire_process_lock(t) ==
    /\ pc[t] = "plock"
    /\ process_lock = 0
    /\ process_lock' = t
    /\ pc' = [pc EXCEPT ![t] = "run"]
    /\ UNCHANGED <<variant, scenario, connection, executor, snap, log, tables, handle, lock, call, loc, ret>>

\* mutant: the locks are released by a statement after the block, which
\* an exception raised inside the block skips
Leave_HeldAfterError(t) ==
    /\ pc[t] \in {"ret", "raised"}
    /\ lock' = IF pc[t] = "ret" /\ ret[t].kind # "raise"
               THEN [owner |-> IF lock.count = 1 THEN 0 ELSE lock.owner,
                     count |-> lock.count - 1]
               ELSE lock
    /\ process_lock' = IF pc[t] = "ret" /\ ret[t].kind # "raise" /\ process_lock = t
                       THEN 0 ELSE process_lock
    /\ pc' = [pc EXCEPT ![t] = "idle"]
    /\ call' = [call EXCEPT ![t] = NoCall]
    /\ loc' = [loc EXCEPT ![t] = NoLoc]
    /\ ret' = [ret EXCEPT ![t] = NoRet]
    /\ snap' = [snap EXCEPT ![t] = NoSnap]
    /\ executor' = [executor EXCEPT !.running = @ \ {t}]
    /\ UNCHANGED <<variant, scenario, connection, tables, handle>>

\* leaving the with-block (or the method, after a raise) and returning
Leave(t) ==
    /\ pc[t] \in {"ret", "raised"}
    /\ lock' = IF pc[t] = "ret"
               THEN [owner |-> IF lock.count = 1 THEN 0 ELSE lock.owner,
                     count |-> lock.count - 1]
               ELSE lock
    /\ process_lock' = IF pc[t] = "ret" /\ process_lock = t THEN 0 ELSE process_lock
    /\ pc' = [pc EXCEPT ![t] = "idle"]
    /\ call' = [call EXCEPT ![t] = NoCall]
    /\ loc' = [loc EXCEPT ![t] = NoLoc]
    /\ ret' = [ret EXCEPT ![t] = NoRet]
    /\ snap' = [snap EXCEPT ![t] = NoSnap]
    /\ executor' = [executor EXCEPT !.running = @ \ {t}]
    /\ UNCHANGED <<variant, scenario, connection, tables, handle>>

return(t) == Leave(t) /\ UNCHANGED log

\* the same step, with the returned call written to the history
return_logged(t) ==
    /\ Leave(t)
    /\ log' = IF pc[t] = "ret" /\ call[t].op \notin Reads
              THEN log (+) SetToBag({[thread |-> t, call |-> call[t]]})
              ELSE log

\* ------------------------------------------------------ the partitions
HasCollections == variant \in {"col", "coltab"}
\* the <<collection, table_name>> arguments the callers use
PartitionArgs ==
    CASE scenario = "names" -> {<<PyStr("default"), PyStr("default")>>,
                                <<PyStr(""), PyStr("default")>>,
                                <<PyNone, PyStr("default")>>,
                                <<PyStr("default"), PyStr("")>>,
                                <<PyStr("default"), PyInt("5")>>}
      [] variant = "col" -> {<<PyStr("default"), PyStr("default")>>,
                             <<PyStr("B"), PyStr("default")>>}
      [] variant = "coltab" -> {<<PyStr("default"), PyStr("default")>>,
                                <<PyStr("B"), PyStr("default")>>,
                                <<PyStr("default"), PyStr("t1")>>}
      [] OTHER -> {<<PyStr("default"), PyStr("default")>>}
HandleArgs == IF variant = "tab" THEN {h \in Handles : handle[h] # ""} ELSE {0}
\* mutant: the empty name is let through
ValidName_AnyStr(x) == isinstance(x, "str")

ValidName(x) == isinstance(x, "str") /\ x.s # ""

\* the SQL table an operation addresses: {self.name} in the tab engine
TableOf(c) == IF variant = "tab" THEN SqlName(handle[c.h]).name ELSE Main


\* ------------------------------------------------------- the statements
\* A statement as handed to connection.execute: the query text, cut into
\* the fragments the code concatenates (a path label or table name spliced
\* into the text is a fragment of its own), and the bound parameters.
\* LIMIT ? OFFSET ? parameters are kept as the integers limit and offset;
\* limit -1 is SQLite's "no limit".
Stmt(text, params) == [text |-> text, params |-> params, limit |-> -1, offset |-> 0]
StmtWindow(text, params, limit, offset) ==
    [text |-> text, params |-> params, limit |-> limit, offset |-> offset]

\* f"{key}" in an f-string
format(x) == x.s

\* the partition parameters that follow the first `base` parameters
PartitionParams(c) ==
    CASE variant = "col" -> <<bind(c.collection)>>
      [] variant = "coltab" -> <<bind(c.collection), bind(c.table_name)>>
      [] OTHER -> <<>>

\* WHERE json_extract(data, <path>) = ? [AND collection = ? [AND table_name = ?]]
\* as each engine writes it after the given head of the statement
WhereText(head, c) ==
    CASE variant = "flat" ->
           <<head \o " WHERE json_extract(data, '$.", format(c.key), "') = ?">>
      [] variant = "col" ->
           <<head \o " WHERE json_extract(data, '$.' || ?) = ? AND collection = ?">>
      [] variant = "coltab" ->
           <<head \o " WHERE json_extract(data, '$.' || ?) = ? AND collection = ? AND table_name = ?">>
      [] OTHER ->
           <<head, handle[c.h], " WHERE json_extract(data, '$.' || ?) = ?">>

WhereParams(c) ==
    IF variant = "flat" THEN <<bind(c.value)>>
    ELSE <<bind(c.key), bind(c.value)>> \o PartitionParams(c)


\* ---------------------------------------------- SQLite runs a statement
\* The table a statement names: spliced into the text in the tab engine.
StmtTable(stmt) == IF variant = "tab" THEN SqlName(stmt.text[2]).name ELSE Main

\* sqlite3.OperationalError: the spliced name does not parse, or the
\* statement works on a table the file does not hold
NoSuchTable(tbls, stmt) ==
    /\ variant = "tab"
    /\ ~SqlName(stmt.text[2]).ok \/ ~tbls[StmtTable(stmt)].exists

\* sqlite3.ProgrammingError: Cannot operate on a closed database
Closed == connection = "closed"

\* execute raises and changes nothing
Fails(tbls, stmt) == Closed \/ NoSuchTable(tbls, stmt)

\* what the method returns, unless execute raised
Outcome(tbls, stmt, r) ==
    IF Closed THEN RetRaise("ProgrammingError")
    ELSE IF NoSuchTable(tbls, stmt) THEN RetRaise("OperationalError")
    ELSE r

\* The path label of json_extract: the label written in the text (flat
\* engine) or the bound parameter appended to '$.' by ||.
StmtKey(stmt, base) ==
    IF variant = "flat" THEN stmt.text[2] ELSE stmt.params[base + 1].s
StmtValue(stmt, base) ==
    IF variant = "flat" THEN stmt.params[base + 1] ELSE stmt.params[base + 2]

\* mutant: the statement carries no partition condition
WherePartition_Ignored(stmt, first, row) == TRUE

\* AND collection = ? AND table_name = ?, parameters from position first on
WherePartition(stmt, first, row) ==
    /\ (HasCollections => row.collection = stmt.params[first].s)
    /\ (variant = "coltab" => row.table_name = stmt.params[first + 1].s)

\* mutant: the clause tests that the field exists, not what it holds
WhereKeyValue_KeyOnly(stmt, base, row) ==
    /\ json_extract(row.data, StmtKey(stmt, base)) # SqlNull
    /\ WherePartition(stmt, base + 3, row)

\* WHERE json_extract(data, path) = ? AND the partition labels
WhereKeyValue(stmt, base, row) ==
    /\ SqlEq(json_extract(row.data, StmtKey(stmt, base)), StmtValue(stmt, base))
    /\ WherePartition(stmt, base + 3, row)

\* the WHERE clause of a statement of kind k: "kv" with the key test,
\* "partition" with the labels only (no clause at all in flat and tab)
\* mutant: the bulk deletes reach the default partition only
Where_DefaultOnly(stmt, base, k, row) ==
    CASE k = "kv" -> WhereKeyValue(stmt, base, row)
      [] k = "collection" -> /\ row.collection = stmt.params[base + 1].s
                             /\ row.table_name = "default"
      [] k = "table_name" -> /\ row.table_name = stmt.params[base + 1].s
                             /\ row.collection = "default"
      [] k = "none" -> TRUE
      [] OTHER -> WherePartition(stmt, base + 1, row)

Where(stmt, base, k, row) ==
    CASE k = "kv" -> WhereKeyValue(stmt, base, row)
      [] k = "collection" -> row.collection = stmt.params[base + 1].s
      [] k = "table_name" -> row.table_name = stmt.params[base + 1].s
      [] k = "none" -> TRUE
      [] OTHER -> WherePartition(stmt, base + 1, row)

\* the rows that satisfy the WHERE clause, in rowid order
Filter(rows, stmt, base, k) == SelectSeq(rows, LAMBDA r : Where(stmt, base, k, r))

\* mutant: the LIMIT is not applied
Window_NoLimit(rows, limit, offset) == SubSeq(rows, offset + 1, Len(rows))

\* mutant: the OFFSET is not applied
Window_NoOffset(rows, limit, offset) ==
    IF limit < 0 THEN rows ELSE SubSeq(rows, 1, Min(Len(rows), limit))

\* LIMIT limit OFFSET offset
Window(rows, limit, offset) ==
    IF limit < 0 THEN SubSeq(rows, offset + 1, Len(rows))
    ELSE SubSeq(rows, offset + 1, Min(Len(rows), offset + limit))

\* SELECT data FROM ... : cursor.fetchall(), the data column of the result
ExecSelect(tbls, stmt, base, k) ==
    IF Fails(tbls, stmt) THEN <<>>
    ELSE LET hit == Window(Filter(tbls[StmtTable(stmt)].rows, stmt, base, k),
                           stmt.limit, stmt.offset)
         IN [i \in 1..Len(hit) |-> hit[i].data]

\* mutant: the collection and table_name columns keep their DEFAULT
ExecInsert_DefaultLabels(tbls, stmt) ==
    LET n == StmtTable(stmt)
        row == [id |-> tbls[n].seq + 1,
                data |-> stmt.params[1],
                collection |-> "default",
                table_name |-> "default"]
    IN [tbls EXCEPT ![n].rows = Append(@, row), ![n].seq = @ + 1]

\* mutant: a rowid without AUTOINCREMENT, one more than the largest rowid
\* the table holds now
ExecInsert_MaxRowid(tbls, stmt) ==
    LET n == StmtTable(stmt)
        ids == {tbls[n].rows[i].id : i \in 1..Len(tbls[n].rows)}
        next == IF ids = {} THEN 1 ELSE 1 + CHOOSE m \in ids : \A k \in ids : k <= m
        row == [id |-> next,
                data |-> stmt.params[1],
                collection |-> IF HasCollections THEN stmt.params[2].s ELSE "default",
                table_name |-> IF variant = "coltab" THEN stmt.params[3].s ELSE "default"]
    IN [tbls EXCEPT ![n].rows = Append(@, row), ![n].seq = next]

\* mutant: the new row is scanned before the rows the table already has
ExecInsert_Front(tbls, stmt) ==
    LET n == StmtTable(stmt)
        row == [id |-> tbls[n].seq + 1,
                data |-> stmt.params[1],
                collection |-> IF HasCollections THEN stmt.params[2].s ELSE "default",
                table_name |-> IF variant = "coltab" THEN stmt.params[3].s ELSE "default"]
    IN [tbls EXCEPT ![n].rows = <<row>> \o @, ![n].seq = @ + 1]

\* INSERT INTO ... (data, ...) VALUES (?, ...): AUTOINCREMENT takes the
\* next number after the largest one the table ever handed out
ExecInsert(tbls, stmt) ==
    LET n == StmtTable(stmt)
        row == [id |-> tbls[n].seq + 1,
                data |-> stmt.params[1],
                collection |-> IF HasCollections THEN stmt.params[2].s ELSE "default",
                table_name |-> IF variant = "coltab" THEN stmt.params[3].s ELSE "default"]
    IN IF Fails(tbls, stmt) THEN tbls
       ELSE [tbls EXCEPT ![n].rows = Append(@, row), ![n].seq = @ + 1]

\* mutant: the DELETE stops after the first row it deletes
ExecDelete_FirstOnly(tbls, stmt, base, k) ==
    LET n == StmtTable(stmt)
        hit == {i \in 1..Len(tbls[n].rows) : Where(stmt, base, k, tbls[n].rows[i])}
    IN [tbls EXCEPT ![n].rows =
           SelectSeq(@, LAMBDA r : \A i \in hit : (\A j \in hit : i <= j) => r # tbls[n].rows[i])]

\* DELETE FROM ... WHERE ...
ExecDelete(tbls, stmt, base, k) ==
    LET n == StmtTable(stmt)
    IN IF Fails(tbls, stmt) THEN tbls
       ELSE [tbls EXCEPT ![n].rows = SelectSeq(@, LAMBDA r : ~Where(stmt, base, k, r))]

RowCount(tbls, stmt, base, k) ==
    IF Fails(tbls, stmt) THEN 0
    ELSE Len(Filter(tbls[StmtTable(stmt)].rows, stmt, base, k))

\* mutant: the UPDATE has no WHERE clause
ExecUpdate_NoWhere(tbls, stmt) ==
    LET n == StmtTable(stmt)
    IN [tbls EXCEPT ![n].rows = [i \in 1..Len(@) |-> [@[i] EXCEPT !.data = stmt.params[1]]]]

\* UPDATE ... SET data = ? WHERE ...: every row the WHERE clause selects
\* gets the one new data value
ExecUpdate(tbls, stmt) ==
    LET n == StmtTable(stmt)
    IN [tbls EXCEPT ![n].rows =
           [i \in 1..Len(@) |->
               IF WhereKeyValue(stmt, 1, @[i]) THEN [@[i] EXCEPT !.data = stmt.params[1]]
               ELSE @[i]]]

\* json.loads of every fetched row
LoadAll(datas) == [i \in 1..Len(datas) |-> loads(datas[i])]


\* ------------------------------------------------------------- insert
insert_query(c) ==
    CASE variant = "flat" ->
           Stmt(<<"INSERT INTO documents (data) VALUES (?)">>, <<dumps(c.doc.d)>>)
      [] variant = "col" ->
           Stmt(<<"INSERT INTO documents (data, collection) VALUES (?, ?)">>,
                <<dumps(c.doc.d)>> \o PartitionParams(c))
      [] variant = "coltab" ->
           Stmt(<<"INSERT INTO documents (data, collection, table_name) VALUES (?, ?, ?)">>,
                <<dumps(c.doc.d)>> \o PartitionParams(c))
      [] OTHER ->
           Stmt(<<"INSERT INTO ", handle[c.h], " (data) VALUES (?)">>, <<dumps(c.doc.d)>>)

RECURSIVE SumSeq(_, _)
SumSeq(tbls, names) ==
    IF names = {} THEN 0
    ELSE LET n == CHOOSE x \in names : TRUE
         IN tbls[n].seq + SumSeq(tbls, names \ {n})

\* the file has handed out fewer than MaxSeq sequence numbers: n more fit
SeqLeft(n) == SumSeq(tables, TableNames) + n <= MaxSeq

insert(t) ==
    /\ pc[t] = "idle"
    /\ \E document \in InDocuments, part \in PartitionArgs, h \in HandleArgs :
         LET c == [NoCall EXCEPT !.op = "insert", !.doc = document,
                                 !.collection = part[1],
                                 !.table_name = part[2], !.h = h]
         IN IF ~isinstance(document, "dict") THEN Raise(t, c, "TypeError")
            ELSE IF HasCollections /\ ~ValidName(part[1]) THEN Raise(t, c, "ValueError")
            ELSE IF variant = "coltab" /\ ~ValidName(part[2]) THEN Raise(t, c, "ValueError")
            ELSE SeqLeft(1) /\ Enter(t, c)

insert_exec(t) ==
    /\ pc[t] = "run"
    /\ call[t].op = "insert"
    /\ tables' = ExecInsert(tables, insert_query(call[t]))
    /\ ret' = [ret EXCEPT ![t] = Outcome(tables, insert_query(call[t]), RetBool(TRUE))]
    /\ pc' = [pc EXCEPT ![t] = "ret"]
    /\ UNCHANGED <<variant, scenario, connection, executor, snap, log, handle, lock, process_lock, call, loc>>

\* -------------------------------------------------------- insert_many
\* mutant: only the first element is looked at
AllDicts_FirstOnly(document_list) ==
    Len(document_list.l) > 0 => isinstance(document_list.l[1], "dict")

\* all(isinstance(doc, dict) for doc in document_list)
AllDicts(document_list) ==
    \A i \in 1..Len(document_list.l) : isinstance(document_list.l[i], "dict")

insert_many(t) ==
    /\ pc[t] = "idle"
    /\ variant # "tab"
    /\ \E document_list \in InDocumentLists, part \in PartitionArgs :
         LET c == [NoCall EXCEPT !.op = "insert_many", !.doc = document_list,
                                 !.collection = part[1],
                                 !.table_name = part[2]]
         IN IF ~isinstance(document_list, "list") \/ ~AllDicts(document_list)
            THEN Raise(t, c, "TypeError")
            ELSE IF HasCollections /\ ~ValidName(part[1]) THEN Raise(t, c, "ValueError")
            ELSE IF variant = "coltab" /\ ~ValidName(part[2]) THEN Raise(t, c, "ValueError")
            ELSE SeqLeft(Len(document_list.l)) /\ Enter(t, c)

\* executemany: one INSERT per element, in list order; then commit
insert_many_exec(t) ==
    /\ pc[t] = "run"
    /\ call[t].op = "insert_many"
    /\ LET i == loc[t].i + 1
           c == [call[t] EXCEPT !.doc = call[t].doc.l[i]]
       IN /\ tables' = ExecInsert(tables, insert_query(c))
          /\ IF i = Len(call[t].doc.l)
             THEN /\ ret' = [ret EXCEPT ![t] = RetBool(TRUE)]
                  /\ pc' = [pc EXCEPT ![t] = "ret"]
                  /\ loc' = loc
             ELSE /\ loc' = [loc EXCEPT ![t].i = i]
                  /\ UNCHANGED <<ret, pc>>
    /\ UNCHANGED <<variant, scenario, connection, executor, snap, log, handle, lock, process_lock, call>>

\* ---------------------------------------------------------------- all
all_query(c) ==
    CASE variant = "flat" -> Stmt(<<"SELECT data FROM documents">>, <<>>)
      [] variant = "col" ->
           StmtWindow(<<"SELECT data FROM documents WHERE collection = ? LIMIT ? OFFSET ?">>,
                      PartitionParams(c), c.limit, c.offset)
      [] variant = "coltab" ->
           StmtWindow(<<"SELECT data FROM documents WHERE collection = ? AND table_name = ? LIMIT ? OFFSET ?">>,
                      PartitionParams(c), c.limit, c.offset)
      [] OTHER ->
           StmtWindow(<<"SELECT data FROM ", handle[c.h], " LIMIT ? OFFSET ?">>,
                      <<>>, c.limit, c.offset)

all(t) ==
    /\ pc[t] = "idle"
    /\ \E part \in PartitionArgs, h \in HandleArgs, w \in InWindows :
         LET c == [NoCall EXCEPT !.op = "all", !.collection = part[1],
                                 !.table_name = part[2], !.h = h,
                                 !.limit = w[1], !.offset = w[2]]
         IN IF HasCollections /\ ~ValidName(part[1]) THEN Raise(t, c, "ValueError")
            ELSE IF variant = "coltab" /\ ~ValidName(part[2]) THEN Raise(t, c, "ValueError")
            ELSE Enter(t, c)

all_exec(t) ==
    /\ pc[t] = "run"
    /\ call[t].op = "all"
    /\ ret' = [ret EXCEPT ![t] =
                 Outcome(tables, all_query(call[t]),
                         RetList(LoadAll(ExecSelect(tables, all_query(call[t]), 0, "partition"))))]
    /\ pc' = [pc EXCEPT ![t] = "ret"]
    /\ UNCHANGED <<variant, scenario, connection, executor, snap, log, tables, handle, lock, process_lock, call, loc>>


\* ------------------------------------------------------------- search
\* mutant: `not key` is not tested
ValidKey_AnyStr(key) == isinstance(key, "str")

ValidKey(key) == isinstance(key, "str") /\ key.s # ""

search_query(c) ==
    LET head == IF variant = "tab" THEN "SELECT data FROM "
                ELSE "SELECT data FROM documents"
        text == WhereText(head, c)
    IN IF variant = "flat" THEN Stmt(text, WhereParams(c))
       ELSE StmtWindow([text EXCEPT ![Len(text)] = @ \o " LIMIT ? OFFSET ?"],
                       WhereParams(c), c.limit, c.offset)

search(t) ==
    /\ pc[t] = "idle"
    /\ \E q \in InQueries, part \in PartitionArgs, h \in HandleArgs, w \in InWindows :
         LET c == [NoCall EXCEPT !.op = "search", !.key = q[1], !.value = q[2],
                                 !.collection = part[1],
                                 !.table_name = part[2], !.h = h,
                                 !.limit = w[1], !.offset = w[2]]
         IN IF variant = "flat" THEN Enter(t, c)
            ELSE IF ~ValidKey(c.key) THEN Raise(t, c, "ValueError")
            ELSE IF HasCollections /\ ~ValidName(part[1]) THEN Raise(t, c, "ValueError")
            ELSE IF variant = "coltab" /\ ~ValidName(part[2]) THEN Raise(t, c, "ValueError")
            ELSE Enter(t, c)

search_exec(t) ==
    /\ pc[t] = "run"
    /\ call[t].op = "search"
    /\ ret' = [ret EXCEPT ![t] =
                 Outcome(tables, search_query(call[t]),
                         RetList(LoadAll(ExecSelect(tables, search_query(call[t]), 0, "kv"))))]
    /\ pc' = [pc EXCEPT ![t] = "ret"]
    /\ UNCHANGED <<variant, scenario, connection, executor, snap, log, tables, handle, lock, process_lock, call, loc>>

\* ------------------------------------------------------------- remove
remove_query(c) ==
    LET head == IF variant = "tab" THEN "DELETE FROM " ELSE "DELETE FROM documents"
    IN Stmt(WhereText(head, c), WhereParams(c))

\* flat engine only: the SELECT that collects removed_items is a plain
\* string literal, not an f-string, so its path is the text '$.{key}'
remove_select_query(c) ==
    Stmt(<<"SELECT data FROM documents WHERE json_extract(data, '$.", "{key}", "') = ?">>,
         <<bind(c.value)>>)

remove(t) ==
    /\ pc[t] = "idle"
    /\ \E q \in InQueries, part \in PartitionArgs, h \in HandleArgs :
         LET c == [NoCall EXCEPT !.op = "remove", !.key = q[1], !.value = q[2],
                                 !.collection = part[1],
                                 !.table_name = part[2], !.h = h]
         IN IF variant = "flat" THEN Enter(t, c)
            ELSE IF ~ValidKey(c.key) THEN Raise(t, c, "ValueError")
            ELSE IF c.value = PyNone THEN Raise(t, c, "ValueError")
            ELSE IF HasCollections /\ ~ValidName(part[1]) THEN Raise(t, c, "ValueError")
            ELSE IF variant = "coltab" /\ ~ValidName(part[2]) THEN Raise(t, c, "ValueError")
            ELSE Enter(t, c)

\* flat: SELECT the matching documents, then DELETE; the others: DELETE,
\* commit and return cursor.rowcount
remove_exec(t) ==
    /\ pc[t] = "run"
    /\ call[t].op = "remove"
    /\ IF variant = "flat" /\ loc[t].i = 0
       THEN /\ loc' = [loc EXCEPT ![t] =
                          [docs |-> ExecSelect(tables, remove_select_query(call[t]), 0, "kv"),
                           i |-> 1]]
            /\ UNCHANGED <<tables, ret, pc>>
       ELSE /\ tables' = ExecDelete(tables, remove_query(call[t]), 0, "kv")
            /\ ret' = [ret EXCEPT ![t] =
                         IF variant = "flat" THEN RetList(LoadAll(loc[t].docs))
                         ELSE Outcome(tables, remove_query(call[t]),
                                      RetInt(RowCount(tables, remove_query(call[t]), 0, "kv")))]
            /\ pc' = [pc EXCEPT ![t] = "ret"]
            /\ loc' = loc
    /\ UNCHANGED <<variant, scenario, connection, executor, snap, log, handle, lock, process_lock, call>>

\* ---------------------------- purge, remove_collection, remove_table
\* flat engine: DELETE FROM documents, no WHERE clause; returns True
purge(t) ==
    /\ pc[t] = "idle"
    /\ variant = "flat"
    /\ Enter(t, [NoCall EXCEPT !.op = "purge"])

purge_exec(t) ==
    /\ pc[t] = "run"
    /\ call[t].op = "purge"
    /\ tables' = ExecDelete(tables, Stmt(<<"DELETE FROM documents">>, <<>>), 0, "none")
    /\ ret' = [ret EXCEPT ![t] = RetBool(TRUE)]
    /\ pc' = [pc EXCEPT ![t] = "ret"]
    /\ UNCHANGED <<variant, scenario, connection, executor, snap, log, handle, lock, process_lock, call, loc>>

remove_collection_query(c) ==
    Stmt(<<"DELETE FROM documents WHERE collection = ?">>, <<bind(c.collection)>>)

remove_collection(t) ==
    /\ pc[t] = "idle"
    /\ HasCollections
    /\ \E part \in PartitionArgs :
         LET c == [NoCall EXCEPT !.op = "remove_collection", !.collection = part[1]]
         IN IF ~ValidName(part[1]) THEN Raise(t, c, "ValueError") ELSE Enter(t, c)

\* DELETE, commit and return result.rowcount
remove_collection_exec(t) ==
    /\ pc[t] = "run"
    /\ call[t].op = "remove_collection"
    /\ tables' = ExecDelete(tables, remove_collection_query(call[t]), 0, "collection")
    /\ ret' = [ret EXCEPT ![t] =
                 RetInt(RowCount(tables, remove_collection_query(call[t]), 0, "collection"))]
    /\ pc' = [pc EXCEPT ![t] = "ret"]
    /\ UNCHANGED <<variant, scenario, connection, executor, snap, log, handle, lock, process_lock, call, loc>>

remove_table_query(c) ==
    Stmt(<<"DELETE FROM documents WHERE table_name = ?">>, <<bind(c.table_name)>>)

remove_table(t) ==
    /\ pc[t] = "idle"
    /\ variant = "coltab"
    /\ \E part \in PartitionArgs :
         LET c == [NoCall EXCEPT !.op = "remove_table", !.table_name = part[2]]
         IN IF ~ValidName(part[2]) THEN Raise(t, c, "ValueError") ELSE Enter(t, c)

remove_table_exec(t) ==
    /\ pc[t] = "run"
    /\ call[t].op = "remove_table"
    /\ tables' = ExecDelete(tables, remove_table_query(call[t]), 0, "table_name")
    /\ ret' = [ret EXCEPT ![t] =
                 RetInt(RowCount(tables, remove_table_query(call[t]), 0, "table_name"))]
    /\ pc' = [pc EXCEPT ![t] = "ret"]
    /\ UNCHANGED <<variant, scenario, connection, executor, snap, log, handle, lock, process_lock, call, loc>>

\* ------------------------------------------------------------- update
update_select_query(c) ==
    LET head == IF variant = "tab" THEN "SELECT data FROM "
                ELSE "SELECT data FROM documents"
    IN Stmt(WhereText(head, c), WhereParams(c))

\* UPDATE ... SET data = ? WHERE json_extract(data, path) = ?
update_query(c, document) ==
    LET head == IF variant = "tab" THEN "UPDATE " ELSE "UPDATE documents SET data = ?"
        text == WhereText(head, c)
    IN Stmt(IF variant = "tab" THEN [text EXCEPT ![3] = " SET data = ?" \o @] ELSE text,
            <<dumps(document)>> \o WhereParams(c))

update(t) ==
    /\ pc[t] = "idle"
    /\ variant \in {"flat", "tab"}
    /\ \E q \in InQueries, new_dict \in InPatches, h \in HandleArgs :
         LET c == [NoCall EXCEPT !.op = "update", !.key = q[1], !.value = q[2],
                                 !.doc = new_dict, !.h = h]
         IN IF variant = "flat" THEN Enter(t, c)
            ELSE IF ~isinstance(new_dict, "dict") THEN Raise(t, c, "TypeError")
            ELSE IF ~ValidKey(c.key) THEN Raise(t, c, "ValueError")
            ELSE IF c.value = PyNone THEN Raise(t, c, "ValueError")
            ELSE Enter(t, c)

\* cursor.fetchall() of the SELECT; tab returns False when nothing matched
update_select(t) ==
    /\ pc[t] = "run"
    /\ call[t].op = "update"
    /\ loc[t].i = 0
    /\ LET documents == ExecSelect(tables, update_select_query(call[t]), 0, "kv")
       IN IF documents = <<>>
          THEN /\ ret' = [ret EXCEPT ![t] =
                            Outcome(tables, update_select_query(call[t]),
                                    RetBool(variant = "flat"))]
               /\ pc' = [pc EXCEPT ![t] = "ret"]
               /\ loc' = loc
          ELSE /\ loc' = [loc EXCEPT ![t] = [docs |-> documents, i |-> 1]]
               /\ UNCHANGED <<ret, pc>>
    /\ UNCHANGED <<variant, scenario, connection, executor, snap, log, tables, handle, lock, process_lock, call>>

\* one turn of `for row in documents`: load, merge, UPDATE; after the last
\* row the commit and `return True`
update_exec(t) ==
    /\ pc[t] = "run"
    /\ call[t].op = "update"
    /\ loc[t].i >= 1
    /\ LET i == loc[t].i
           document == dict_update(loads(loc[t].docs[i]), call[t].doc.d)
       IN IF dict_update_raises(call[t].doc) # ""
          THEN \* document.update raises inside the with-block, before the
               \* UPDATE of the first row: the block is left with nothing
               \* written and the exception reaches the caller
               /\ ret' = [ret EXCEPT ![t] = RetRaise(dict_update_raises(call[t].doc))]
               /\ pc' = [pc EXCEPT ![t] = "ret"]
               /\ UNCHANGED <<tables, loc>>
          ELSE /\ tables' = ExecUpdate(tables, update_query(call[t], document))
               /\ IF i = Len(loc[t].docs)
                  THEN /\ ret' = [ret EXCEPT ![t] = RetBool(TRUE)]
                       /\ pc' = [pc EXCEPT ![t] = "ret"]
                       /\ loc' = loc
                  ELSE /\ loc' = [loc EXCEPT ![t].i = i + 1]
                       /\ UNCHANGED <<ret, pc>>
    /\ UNCHANGED <<variant, scenario, connection, executor, snap, log, handle, lock, process_lock, call>>

\* -------------------------------------------------- table (tab engine)
create_table_query(name) ==
    Stmt(<<"CREATE TABLE IF NOT EXISTS ", name,
           " (id INTEGER PRIMARY KEY AUTOINCREMENT, data TEXT NOT NULL)">>, <<>>)

ExecCreate(tbls, stmt) ==
    LET n == StmtTable(stmt)
    IN IF tbls[n].exists THEN tbls ELSE [tbls EXCEPT ![n] = EmptyTable]

\* KenobiDB.table(name) constructs a KenobiTable, whose __init__ runs
\* _create_table under the lock
table(t) ==
    /\ pc[t] = "idle"
    /\ variant = "tab"
    /\ \E name \in InTableArgs, h \in Handles :
         /\ handle[h] = ""
         /\ \A g \in Handles : handle[g] = "" => ~(g < h)
         /\ LET c == [NoCall EXCEPT !.op = "table", !.table_name = name, !.h = h]
            IN IF ~ValidName(name) THEN Raise(t, c, "ValueError") ELSE Enter(t, c)

\* a name that does not parse makes execute raise inside __init__: no
\* KenobiTable comes to exist
table_exec(t) ==
    /\ pc[t] = "run"
    /\ call[t].op = "table"
    /\ IF SqlName(call[t].table_name.s).ok /\ ~Closed
       THEN /\ tables' = ExecCreate(tables, create_table_query(call[t].table_name.s))
            /\ handle' = [handle EXCEPT ![call[t].h] = call[t].table_name.s]
            /\ ret' = [ret EXCEPT ![t] = NoRet]
       ELSE /\ ret' = [ret EXCEPT ![t] = RetRaise(IF Closed THEN "ProgrammingError"
                                                   ELSE "OperationalError")]
            /\ UNCHANGED <<tables, handle>>
    /\ pc' = [pc EXCEPT ![t] = "ret"]
    /\ UNCHANGED <<variant, scenario, connection, executor, snap, log, lock, process_lock, call, loc>>

\* ------------------------------------------------- rename (tab engine)
rename_query(c) ==
    Stmt(<<"ALTER TABLE ", handle[c.h], " RENAME TO ", c.table_name.s>>, <<>>)

\* ALTER TABLE raises when a name does not parse, when the file has no
\* table of the old name and when it has one of the new name
RenameFails(tbls, stmt) ==
    \/ Fails(tbls, stmt)
    \/ ~SqlName(stmt.text[4]).ok
    \/ tbls[SqlName(stmt.text[4]).name].exists

\* mutant: the rows are copied and the old table stays
ExecRename_KeepOld(tbls, stmt) ==
    IF RenameFails(tbls, stmt) THEN tbls
    ELSE [tbls EXCEPT ![SqlName(stmt.text[4]).name] = tbls[StmtTable(stmt)]]

\* ALTER TABLE ... RENAME TO ...: the rows, their ids and the table's
\* sqlite_sequence entry go to the new name
ExecRename(tbls, stmt) ==
    IF RenameFails(tbls, stmt) THEN tbls
    ELSE [tbls EXCEPT ![SqlName(stmt.text[4]).name] = tbls[StmtTable(stmt)],
                      ![StmtTable(stmt)] = NoTable]

rename(t) ==
    /\ pc[t] = "idle"
    /\ variant = "tab"
    /\ \E new_name \in InNewNames :
         \E h \in HandleArgs :
            LET c == [NoCall EXCEPT !.op = "rename", !.table_name = new_name, !.h = h]
            IN IF ~ValidName(new_name) THEN Raise(t, c, "ValueError") ELSE Enter(t, c)

\* self.name is assigned after execute returned, not when it raised
rename_exec(t) ==
    /\ pc[t] = "run"
    /\ call[t].op = "rename"
    /\ tables' = ExecRename(tables, rename_query(call[t]))
    /\ IF RenameFails(tables, rename_query(call[t]))
       THEN /\ ret' = [ret EXCEPT ![t] = RetRaise(IF Closed THEN "ProgrammingError"
                                                   ELSE "OperationalError")]
            /\ handle' = handle
       ELSE /\ ret' = [ret EXCEPT ![t] = NoRet]
            /\ handle' = [handle EXCEPT ![call[t].h] = call[t].table_name.s]
    /\ pc' = [pc EXCEPT ![t] = "ret"]
    /\ UNCHANGED <<variant, scenario, connection, executor, snap, log, lock, process_lock, call, loc>>

\* --------------------------------------------------------------- drop
\* f"DROP TABLE {self.name}"
drop_query(c) == Stmt(<<"DROP TABLE ", handle[c.h]>>, <<>>)

\* mutant: the documents are deleted and the table is kept
ExecDrop_Truncate(tbls, stmt) ==
    IF Fails(tbls, stmt) THEN tbls
    ELSE [tbls EXCEPT ![StmtTable(stmt)] = EmptyTable]

\* DROP TABLE: the table goes with its rows and its sqlite_sequence
\* entry, at once (a DDL statement opens no transaction)
ExecDrop(tbls, stmt) ==
    IF Fails(tbls, stmt) THEN tbls
    ELSE [tbls EXCEPT ![StmtTable(stmt)] = NoTable]

drop(t) ==
    /\ pc[t] = "idle"
    /\ variant = "tab"
    /\ \E h \in HandleArgs : Enter(t, [NoCall EXCEPT !.op = "drop", !.h = h])

\* self.name stays what it was
drop_exec(t) ==
    /\ pc[t] = "run"
    /\ call[t].op = "drop"
    /\ tables' = ExecDrop(tables, drop_query(call[t]))
    /\ ret' = [ret EXCEPT ![t] = Outcome(tables, drop_query(call[t]), NoRet)]
    /\ pc' = [pc EXCEPT ![t] = "ret"]
    /\ UNCHANGED <<variant, scenario, connection, executor, snap, log, handle, lock, process_lock, call, loc>>

\* ------------------------------------------------ find_any, find_all
\* ', '.join(['?'] * len(value_list))
placeholders(value_list) == [i \in 1..Len(value_list.l) |-> "?"]

\* the SQL value of a JSON scalar, as json_extract and json_each give it
SqlOfTok(tok) ==
    CASE tok.k = "quoted" -> Sql("text", tok.lit, <<>>)
      [] tok.lit = "true" -> Sql("integer", "1", <<>>)
      [] tok.lit = "false" -> Sql("integer", "0", <<>>)
      [] tok.lit = "null" -> SqlNull
      [] OTHER -> Sql("integer", tok.lit, <<>>)

\* json_each(documents.data, '$.key'): the value column, one row per
\* element of an array, one row for a scalar, none for a missing field
json_each(data, key) ==
    IF key \notin DOMAIN data THEN <<>>
    ELSE IF data[key].k = "array"
         THEN [i \in 1..Len(data[key].items) |-> SqlOfTok(data[key].items[i])]
         ELSE <<SqlOfTok(data[key])>>

find_any_query(c) ==
    Stmt(<<"SELECT DISTINCT documents.data FROM documents, json_each(documents.data, '$.",
           format(c.key), "') WHERE json_each.value IN (", placeholders(c.value), ")">>,
         [i \in 1..Len(c.value.l) |-> bind(c.value.l[i])])

find_all_query(c) ==
    Stmt(<<"SELECT documents.data FROM documents WHERE (SELECT COUNT(DISTINCT value) FROM json_each(documents.data, '$.",
           format(c.key), "') WHERE value IN (", placeholders(c.value), ")) = ?">>,
         [i \in 1..Len(c.value.l) |-> bind(c.value.l[i])]
             \o <<bind(PyInt(ToString(Len(c.value.l))))>>)

\* mutant: an empty IN list matches every value
InParams_EmptyMatches(v, stmt, n) == n = 0 \/ \E i \in 1..n : SqlEq(v, stmt.params[i])

\* value IN (?, ..., ?) over the first n parameters
InParams(v, stmt, n) == \E i \in 1..n : SqlEq(v, stmt.params[i])

\* DISTINCT: a row equal to an earlier row of the result is dropped
Distinct(datas) ==
    LET keep == {i \in 1..Len(datas) : \A j \in 1..(i - 1) : datas[j] # datas[i]}
        pick(i) == CHOOSE k \in keep : Cardinality({j \in keep : j < k}) = i - 1
    IN [i \in 1..Cardinality(keep) |-> datas[pick(i)]]

\* SELECT DISTINCT documents.data FROM documents, json_each(...) WHERE
\* json_each.value IN (...)
ExecFindAny(tbls, stmt) ==
    LET n == Len(stmt.params)
        hit == SelectSeq(tbls[Main].rows,
                         LAMBDA r : \E i \in 1..Len(json_each(r.data, stmt.text[2])) :
                                        InParams(json_each(r.data, stmt.text[2])[i], stmt, n))
    IN Distinct([i \in 1..Len(hit) |-> hit[i].data])

\* mutant: only the documents that have the field are looked at
ExecFindAll_FieldRequired(tbls, stmt) ==
    LET hit == SelectSeq(tbls[Main].rows,
                         LAMBDA r : /\ stmt.text[2] \in DOMAIN r.data
                                    /\ \A i \in 1..(Len(stmt.params) - 1) :
                                          \E j \in 1..Len(json_each(r.data, stmt.text[2])) :
                                             SqlEq(json_each(r.data, stmt.text[2])[j], stmt.params[i]))
    IN [i \in 1..Len(hit) |-> hit[i].data]

\* SELECT documents.data FROM documents WHERE (SELECT COUNT(DISTINCT value)
\* FROM json_each(...) WHERE value IN (...)) = ?
ExecFindAll(tbls, stmt) ==
    LET n == Len(stmt.params) - 1
        count(r) == Cardinality({json_each(r.data, stmt.text[2])[i] :
                                    i \in {j \in 1..Len(json_each(r.data, stmt.text[2])) :
                                             InParams(json_each(r.data, stmt.text[2])[j], stmt, n)}})
        hit == SelectSeq(tbls[Main].rows,
                         LAMBDA r : SqlEq(Sql("integer", ToString(count(r)), <<>>),
                                          stmt.params[n + 1]))
    IN [i \in 1..Len(hit) |-> hit[i].data]

find_any(t) ==
    /\ pc[t] = "idle"
    /\ variant = "flat"
    /\ \E key \in InListKeys, value_list \in InValueLists :
         Enter(t, [NoCall EXCEPT !.op = "find_any", !.key = key, !.value = value_list])

find_any_exec(t) ==
    /\ pc[t] = "run"
    /\ call[t].op = "find_any"
    /\ ret' = [ret EXCEPT ![t] =
                 RetList(LoadAll(ExecFindAny(tables, find_any_query(call[t]))))]
    /\ pc' = [pc EXCEPT ![t] = "ret"]
    /\ UNCHANGED <<variant, scenario, connection, executor, snap, log, tables, handle, lock, process_lock, call, loc>>

find_all(t) ==
    /\ pc[t] = "idle"
    /\ variant = "flat"
    /\ \E key \in InListKeys, value_list \in InValueLists :
         Enter(t, [NoCall EXCEPT !.op = "find_all", !.key = key, !.value = value_list])

find_all_exec(t) ==
    /\ pc[t] = "run"
    /\ call[t].op = "find_all"
    /\ ret' = [ret EXCEPT ![t] =
                 RetList(LoadAll(ExecFindAll(tables, find_all_query(call[t]))))]
    /\ pc' = [pc EXCEPT ![t] = "ret"]
    /\ UNCHANGED <<variant, scenario, connection, executor, snap, log, tables, handle, lock, process_lock, call, loc>>

\* ------------------------------------------------------ execute_async
\* the work items the callers submit: table.insert and table.update of
\* the table object constructed first, with their arguments
Jobs(h) ==
    {[NoCall EXCEPT !.op = "insert", !.doc = document, !.h = h] : document \in InDocuments}
    \cup {[NoCall EXCEPT !.op = "update", !.key = q[1], !.value = q[2], !.doc = new_dict,
                         !.h = h] : q \in InQueries, new_dict \in InPatches}

\* self.executor.submit(func, *args): the item joins the work queue and
\* the caller does not wait for it; after shutdown submit raises
\* RuntimeError (cannot schedule new futures after shutdown)
execute_async ==
    /\ variant = "tab"
    /\ IF executor.shutdown
       THEN \E t \in Threads :
               /\ pc[t] = "idle"
               /\ Raise(t, [NoCall EXCEPT !.op = "execute_async"], "RuntimeError")
       ELSE /\ Len(executor.work) < MaxSeq
            /\ \E h \in HandleArgs :
                 /\ \A g \in HandleArgs : h <= g
                 /\ \E job \in Jobs(h) : executor' = [executor EXCEPT !.work = Append(@, job)]
            /\ UNCHANGED <<variant, scenario, connection, tables, handle, lock, process_lock,
                           pc, call, loc, ret, snap, log>>

\* a worker thread of the pool takes the oldest item of the queue
worker_take(t) ==
    /\ pc[t] = "idle"
    /\ executor.taken < Len(executor.work)
    /\ executor' = [executor EXCEPT !.taken = @ + 1, !.running = @ \cup {t}]
    /\ call' = [call EXCEPT ![t] = executor.work[executor.taken + 1]]
    /\ pc' = [pc EXCEPT ![t] = "job"]
    /\ UNCHANGED <<variant, scenario, connection, tables, handle, lock, process_lock, loc, ret, snap, log>>

\* the worker calls func(*args): the method validates its arguments and
\* enters `with self._lock`
worker_run(t) ==
    /\ pc[t] = "job"
    /\ LET c == call[t]
       IN IF ~isinstance(c.doc, "dict") THEN Raise(t, c, "TypeError")
          ELSE IF c.op = "update" /\ ~ValidKey(c.key) THEN Raise(t, c, "ValueError")
          ELSE IF c.op = "update" /\ c.value = PyNone THEN Raise(t, c, "ValueError")
          ELSE Enter(t, c)

\* -------------------------------------------------------------- close
\* mutant: shutdown(wait=False), the caller goes on at once
Drained_NoWait == TRUE

\* self.executor.shutdown() returns: every item of the queue was taken
\* and no worker is running one
Drained == executor.taken = Len(executor.work) /\ executor.running = {}

\* close() begins: shutdown marks the executor and waits for its workers
close(t) ==
    /\ pc[t] = "idle"
    /\ variant = "tab"
    /\ executor' = [executor EXCEPT !.shutdown = TRUE]
    /\ call' = [call EXCEPT ![t] = [NoCall EXCEPT !.op = "close"]]
    /\ pc' = [pc EXCEPT ![t] = "closing"]
    /\ UNCHANGED <<variant, scenario, connection, tables, handle, lock, process_lock, loc,
                   ret, snap, log>>

\* shutdown has returned: `with self._lock`
close_enter(t) ==
    /\ pc[t] = "closing"
    /\ Drained
    /\ Enter(t, call[t])

\* self._connection.close()
close_exec(t) ==
    /\ pc[t] = "run"
    /\ call[t].op = "close"
    /\ connection' = "closed"
    /\ ret' = [ret EXCEPT ![t] = NoRet]
    /\ pc' = [pc EXCEPT ![t] = "ret"]
    /\ UNCHANGED <<variant, scenario, executor, tables, handle, lock, process_lock, call, loc,
                   snap, log>>

\* --------------------------------------------------- the specification
NextFlat ==
    \E t \in Threads :
        \/ insert(t) \/ insert_exec(t)
        \/ insert_many(t) \/ insert_many_exec(t)
        \/ all(t) \/ all_exec(t)
        \/ search(t) \/ search_exec(t)
        \/ remove(t) \/ remove_exec(t)
        \/ update(t) \/ update_select(t) \/ update_exec(t)
        \/ acquire_process_lock(t)
        \/ return(t)

NextCol ==
    \E t \in Threads :
        \/ insert(t) \/ insert_exec(t)
        \/ insert_many(t) \/ insert_many_exec(t)
        \/ all(t) \/ all_exec(t)
        \/ search(t) \/ search_exec(t)
        \/ remove(t) \/ remove_exec(t)
        \/ return(t)

NextTab ==
    \E t \in Threads :
        \/ table(t) \/ table_exec(t)
        \/ insert(t) \/ insert_exec(t)
        \/ all(t) \/ all_exec(t)
        \/ search(t) \/ search_exec(t)
        \/ remove(t) \/ remove_exec(t)
        \/ update(t) \/ update_select(t) \/ update_exec(t)
        \/ return(t)

\* src/kenobi.py
InitFlat == Init /\ variant = "flat" /\ scenario = "base"
SpecFlat == InitFlat /\ [][NextFlat]_vars
\* src/.features_sandbox/col.py
InitCol == Init /\ variant = "col" /\ scenario = "base"
SpecCol == InitCol /\ [][NextCol]_vars
\* src/.ideas/collections.py
InitColTab == Init /\ variant = "coltab" /\ scenario = "base"
SpecColTab == InitColTab /\ [][NextCol]_vars
\* src/.features_sandbox/tables.py
InitTab == Init /\ variant = "tab" /\ scenario = "base"
SpecTab == InitTab /\ [][NextTab]_vars

TypeOK ==
    /\ variant \in Variants
    /\ \A t \in Threads : pc[t] \in {"idle", "job", "called", "closing", "plock", "run", "ret", "raised"}
    /\ lock.owner \in {0} \cup Threads


\* the calls of test_concurrent_inserts: threads that only insert, and the
\* all() that follows; every returned insert is written to the history
NextInserts ==
    \E t \in Threads :
        \/ insert(t) \/ insert_exec(t)
        \/ all(t) \/ all_exec(t)
        \/ return_logged(t)

SpecInserts == InitCol /\ [][NextInserts]_vars

\* ------------------------------------------------------------ properties
Count(seq, x) == Cardinality({i \in 1..Len(seq) : seq[i] = x})

\* the thread is inside the with-block
InCS(t) == pc[t] \in {"plock", "run", "ret"}

\* what all() addressed to a partition returns on a given file
ListingOf(tbls, part) ==
    LoadAll(ExecSelect(tbls,
                       all_query([NoCall EXCEPT !.collection = part[1],
                                                !.table_name = part[2]]),
                       0, "partition"))

PartitionOf(c) == <<c.collection, c.table_name>>

\* the returned inserts into the partition of call c
InsertedInto(c) ==
    {e \in BagToSet(log) : e.call.op = "insert" /\ PartitionOf(e.call) = PartitionOf(c)}

\* how many calls of the history are among the entries S
RECURSIVE Copies(_)
Copies(S) ==
    IF S = {} THEN 0
    ELSE LET e == CHOOSE x \in S : TRUE
         IN CopiesIn(e, log) + Copies(S \ {e})

RECURSIVE UpdateLoop(_, _, _, _)
UpdateLoop(tbls, c, documents, i) ==
    IF i > Len(documents) THEN tbls
    ELSE UpdateLoop(ExecUpdate(tbls, update_query(c, dict_update(loads(documents[i]), c.doc.d))),
                    c, documents, i + 1)

UpdateAlone(tbls, c) ==
    UpdateLoop(tbls, c, ExecSelect(tbls, update_select_query(c), 0, "kv"), 1)

Matched(tbls, c) == ExecSelect(tbls, update_select_query(c), 0, "kv")

\* C2: an update is atomic: when it returns, the file is the file it found
\* on entering, changed by its own select, merge and writes and by nothing
\* else, so two concurrent updates act in one of the two sequential orders.
C2_UpdateIsAtomic ==
    \A t \in Threads :
        (pc[t] = "ret" /\ call[t].op = "update") => tables = UpdateAlone(snap[t], call[t])

\* an update that matched two documents has written them and is returning
C2_Witness ==
    \E t \in Threads :
        /\ pc[t] = "ret" /\ call[t].op = "update"
        /\ Len(Matched(snap[t], call[t])) = 2
        /\ tables # snap[t]

Partial(u) ==
    /\ pc[u] = "run"
    /\ call[u].op \in {"insert_many", "update", "remove"}
    /\ tables # snap[u]

\* C4: whenever a read (all, search) takes its result, no other thread is
\* in the middle of a multi-row mutation: the read sees an insert_many,
\* update or remove entirely or not at all.
C4_ReadsSeeNoPartialWrite ==
    [][\A t \in Threads :
          (pc[t] = "run" /\ call[t].op \in Reads /\ pc'[t] = "ret") =>
              \A u \in Threads \ {t} : ~Partial(u)]_vars

\* all() has returned two documents that a two-row update gave the field b
C4_Witness ==
    \E t \in Threads :
        /\ pc[t] = "ret" /\ call[t].op = "all"
        /\ Len(ret[t].docs) = 2
        /\ \A i \in 1..2 : "b" \in DOMAIN ret[t].docs[i]

\* document n is document d overlaid with patch: the fields of d that the
\* patch does not name keep their values, the fields the patch names take
\* the patch's values, and there are no other fields
Overlaid(d, patch, n) ==
    /\ DOMAIN n = DOMAIN d \cup DOMAIN patch
    /\ \A k \in DOMAIN patch : n[k] = patch[k]
    /\ \A k \in DOMAIN d \ DOMAIN patch : n[k] = d[k]

\* the update of thread t has replaced every row that matched
\* key == value on entry by its own document overlaid with the patch, and
\* has left every other row as it was
EachMatchOverlaid(t) ==
    LET old == snap[t][TableOf(call[t])].rows
        new == tables[TableOf(call[t])].rows
    IN /\ Len(new) = Len(old)
       /\ \A i \in 1..Len(old) :
             IF WhereKeyValue(update_select_query(call[t]), 0, old[i])
             THEN /\ new[i].id = old[i].id
                  /\ Overlaid(loads(old[i].data), call[t].doc.d, loads(new[i].data))
             ELSE new[i] = old[i]

\* C5: update replaces every matched document by its own content overlaid
\* with the patch, so matched documents keep their own fields that the
\* patch does not name, and two matched documents that differed in such a
\* field still differ in it.
C5_EachMatchKeepsOwnFields ==
    \A t \in Threads :
        (pc[t] = "ret" /\ call[t].op = "update") => EachMatchOverlaid(t)

\* C6: when update matches exactly one document d, d becomes d overlaid
\* with the patch: old fields kept, patched fields replaced, new fields
\* added; every other row is as before.
C6_SingleMatchMerged ==
    \A t \in Threads :
        (/\ pc[t] = "ret" /\ call[t].op = "update"
         /\ Len(Matched(snap[t], call[t])) = 1) => EachMatchOverlaid(t)

\* update("id", 1, patch) has rewritten the one document with id 1: it
\* kept id, took key from the patch and gained b
C6_Witness ==
    \E t \in Threads :
        /\ pc[t] = "ret" /\ call[t].op = "update"
        /\ Len(Matched(snap[t], call[t])) = 1
        /\ \E i \in 1..Len(tables[Main].rows) :
              loads(tables[Main].rows[i].data) =
                  ("id" :> PyInt("1")) @@ ("key" :> PyStr("other")) @@ ("b" :> PyStr("y"))

\* C7: insert_many with an argument that is not a list of dicts raises
\* TypeError and stores nothing; a call that does store has a list whose
\* elements are all dicts.
C7_InsertManyAllOrNothing ==
    [][\A t \in Threads :
          /\ (pc[t] = "idle" /\ pc'[t] = "raised" /\ call'[t].op = "insert_many") =>
                (ret'[t].exc = "TypeError" /\ tables' = tables)
          /\ (pc[t] = "idle" /\ InCS(t)' /\ call'[t].op = "insert_many") =>
                (/\ call'[t].doc.t = "list"
                 /\ \A i \in 1..Len(call'[t].doc.l) : call'[t].doc.l[i].t = "dict")]_vars

\* insert_many has raised TypeError on a store that holds documents
C7_Witness ==
    \E t \in Threads :
        /\ pc[t] = "raised" /\ call[t].op = "insert_many"
        /\ ret[t].exc = "TypeError"
        /\ tables[Main].rows # <<>>

\* the rows of a file that carry the labels of a partition
Labelled(tbls, part) ==
    SelectSeq(tbls[Main].rows,
              LAMBDA r : /\ r.collection = part[1].s
                         /\ (variant = "coltab" => r.table_name = part[2].s))

\* C8: a read addressed to a partition returns documents of rows labelled
\* with that partition only, an insert labels its row with the addressed
\* partition, and no insert, insert_many or remove addressed to one
\* partition changes the listing of another.
C8_PartitionsIsolated ==
    [][\A t \in Threads :
          /\ (pc[t] = "run" /\ call[t].op \in {"insert", "insert_many", "remove"}) =>
                \A part \in PartitionArgs :
                    part # PartitionOf(call[t]) =>
                        ListingOf(tables', part) = ListingOf(tables, part)
          /\ (pc[t] = "run" /\ pc'[t] = "ret" /\ call[t].op = "insert") =>
                ListingOf(tables', PartitionOf(call[t])) =
                    Append(ListingOf(tables, PartitionOf(call[t])), call[t].doc.d)
          /\ (pc[t] = "run" /\ pc'[t] = "ret" /\ call[t].op = "all") =>
                LET mine == Labelled(tables, PartitionOf(call[t]))
                IN ret'[t].docs = [i \in 1..Len(mine) |-> loads(mine[i].data)]
          /\ (pc[t] = "run" /\ pc'[t] = "ret" /\ call[t].op = "search") =>
                \A i \in 1..Len(ret'[t].docs) :
                    \E r \in 1..Len(Labelled(tables, PartitionOf(call[t]))) :
                        loads(Labelled(tables, PartitionOf(call[t]))[r].data) = ret'[t].docs[i]
      ]_vars

\* remove has deleted a document from its partition while another
\* partition still holds an equal document
C8_Witness ==
    \E t \in Threads :
        /\ pc[t] = "ret" /\ call[t].op = "remove" /\ ret[t].n = 1
        /\ \E part \in PartitionArgs :
              /\ part # PartitionOf(call[t])
              /\ \E i \in 1..Len(ListingOf(tables, part)) :
                    \E j \in 1..Len(ListingOf(snap[t], PartitionOf(call[t]))) :
                        /\ ListingOf(tables, part)[i] = ListingOf(snap[t], PartitionOf(call[t]))[j]
                        /\ Count(ListingOf(tables, PartitionOf(call[t])), ListingOf(tables, part)[i]) = 0

StatementTexts(c) ==
    CASE c.op = "search" -> {search_query(c).text}
      [] c.op = "remove" ->
           {remove_query(c).text} \cup
           (IF variant = "flat" THEN {remove_select_query(c).text} ELSE {})
      [] c.op = "update" -> {update_select_query(c).text, update_query(c, c.doc.d).text}
      [] OTHER -> {}

\* C10: the query text an operation sends is the same whatever the field
\* name: the field name travels as a bound parameter only.
C10_FieldNameNeverInQueryText ==
    \A t \in Threads :
        (InCS(t) /\ call[t].op \in {"search", "remove", "update"}) =>
            \A q \in InQueries :
                StatementTexts([call[t] EXCEPT !.key = q[1]]) = StatementTexts(call[t])

\* ---------------------------------------------------------- pagination
\* test_pagination_all on the collection engine: inserts, removes and
\* all(limit, offset) with the windows of InWindows
NextPages ==
    \E t \in Threads :
        \/ insert(t) \/ insert_exec(t)
        \/ remove(t) \/ remove_exec(t)
        \/ all(t) \/ all_exec(t)
        \/ return(t)

InitPages == Init /\ variant = "col" /\ scenario = "pages"
SpecPages == InitPages /\ [][NextPages]_vars

Max(a, b) == IF a > b THEN a ELSE b

\* the documents of a partition by ascending sequence number: the i-th is
\* the document of the row that has i - 1 rows of the partition below it
InsertionOrdered(tbls, part) ==
    LET rs == {Labelled(tbls, part)[i] : i \in 1..Len(Labelled(tbls, part))}
    IN [i \in 1..Cardinality(rs) |->
           loads((CHOOSE r \in rs : Cardinality({q \in rs : q.id < r.id}) = i - 1).data)]

\* what all(limit, offset) on a partition returns on a given file
PageOf(tbls, part, limit, offset) ==
    LoadAll(ExecSelect(tbls,
                       all_query([NoCall EXCEPT !.collection = part[1],
                                                !.table_name = part[2],
                                                !.limit = limit, !.offset = offset]),
                       0, "partition"))

\* the pages all(n, 0), all(n, n), ... from page k on, one after another
RECURSIVE PagesFrom(_, _, _, _)
PagesFrom(tbls, part, n, k) ==
    IF k * n >= Len(Labelled(tbls, part)) THEN <<>>
    ELSE PageOf(tbls, part, n, k * n) \o PagesFrom(tbls, part, n, k + 1)

\* C11: all(limit, offset) returns the documents at the positions
\* offset .. offset + limit - 1 of the partition's documents in insertion
\* order (ascending sequence number), and the consecutive pages of any
\* size n, put one after another, are that listing: each document of the
\* partition is on exactly one page.
C11_AllReturnsTheWindow ==
    \A t \in Threads :
        (pc[t] = "ret" /\ call[t].op = "all") =>
            LET part == PartitionOf(call[t])
                full == InsertionOrdered(tables, part)
                n == Max(0, Min(call[t].limit, Len(full) - call[t].offset))
            IN /\ ret[t].docs = [i \in 1..n |-> full[call[t].offset + i]]
               /\ \A size \in 1..MaxSeq : PagesFrom(tables, part, size, 0) = full

\* all(limit=1, offset=1) on a partition of three documents has returned
\* the second one, which differs from the first
C11_Witness ==
    \E t \in Threads :
        /\ pc[t] = "ret" /\ call[t].op = "all"
        /\ call[t].limit = 1 /\ call[t].offset = 1
        /\ Len(Labelled(tables, PartitionOf(call[t]))) = 3
        /\ Len(ret[t].docs) = 1
        /\ ret[t].docs[1] # InsertionOrdered(tables, PartitionOf(call[t]))[1]

\* ------------------------------------------------- the types of a field
\* the collection engine with documents whose field k holds 1, "1", true
\* or null, searched and removed by each of these values
NextTypes ==
    \E t \in Threads :
        \/ insert(t) \/ insert_exec(t)
        \/ search(t) \/ search_exec(t)
        \/ remove(t) \/ remove_exec(t)
        \/ return(t)

InitTypes == Init /\ variant = "col" /\ scenario = "types"
SpecTypes == InitTypes /\ [][NextTypes]_vars

\* the documents of the partition of call c, in the order of their rows,
\* whose field c.key has the type and the value of c.value
StrictMatches(tbls, c) ==
    SelectSeq(ListingOf(tbls, PartitionOf(c)),
              LAMBDA d : c.key.s \in DOMAIN d /\ d[c.key.s] = c.value)

\* C12: search(key, value) returns a document if and only if its field key
\* has the same type and the same value as the operand: the number 1, the
\* string "1" and the boolean true never match one another.
C12_SearchIsStrictEquality ==
    \A t \in Threads :
        (pc[t] = "ret" /\ call[t].op = "search") =>
            ret[t].docs = StrictMatches(tables, call[t])

\* the inserted documents that the partition of call c still holds
Held(tbls, c) ==
    {d \in InDocuments :
        /\ isinstance(d, "dict")
        /\ \E i \in 1..Len(Labelled(tbls, PartitionOf(c))) :
              Labelled(tbls, PartitionOf(c))[i].data = dumps(d.d)}

\* C13: round trip: for every document d that was inserted and is still
\* held, and every field f of d, search(f, d[f]) with the default window
\* returns a list that contains a document equal to d.
C13_SearchFindsWhatWasInserted ==
    \A t \in Threads :
        (/\ pc[t] = "ret" /\ call[t].op = "search"
         /\ call[t].limit = DefaultLimit /\ call[t].offset = DefaultOffset) =>
            \A d \in Held(tables, call[t]) :
                (call[t].key.s \in DOMAIN d.d /\ d.d[call[t].key.s] = call[t].value) =>
                    \E i \in 1..Len(ret[t].docs) : ret[t].docs[i] = d.d

\* C14: in the flat engine remove(key, value) returns the list of exactly
\* the documents it deletes, captured before the deletion: the documents
\* that matched key == value on entry; after the call none of them is
\* listed by all().
C14_RemoveReturnsWhatItDeletes ==
    \A t \in Threads :
        (variant = "flat" /\ pc[t] = "ret" /\ call[t].op = "remove") =>
            LET before == StrictMatches(snap[t], call[t])
            IN /\ ret[t].docs = before
               /\ \A i \in 1..Len(before) :
                     Count(ListingOf(tables, PartitionOf(call[t])), before[i]) = 0

\* ------------------------------------------------------- remove by value
\* the collection engine with documents whose field k holds 1, "1" or
\* true, removed by each of these values and by None
NextRemoves ==
    \E t \in Threads :
        \/ insert(t) \/ insert_exec(t)
        \/ remove(t) \/ remove_exec(t)
        \/ return(t)

InitRemoves == Init /\ variant = "col" /\ scenario = "removes"
SpecRemoves == InitRemoves /\ [][NextRemoves]_vars

\* Python's a == b for scalars: numbers compare by value, and the
\* booleans are the numbers 1 and 0
PyEq(a, b) ==
    LET num(x) == IF x.t = "bool" THEN (IF x.s = "True" THEN "1" ELSE "0") ELSE x.s
    IN IF a.t \in {"int", "bool", "float"} /\ b.t \in {"int", "bool", "float"}
       THEN num(a) = num(b)
       ELSE a = b

\* the row belongs to the partition call c addresses and its field c.key
\* equals c.value
RowMatches(r, c) ==
    /\ (HasCollections => r.collection = c.collection.s)
    /\ (variant = "coltab" => r.table_name = c.table_name.s)
    /\ c.key.s \in DOMAIN loads(r.data)
    /\ PyEq(loads(r.data)[c.key.s], c.value)

NextLists ==
    \E t \in Threads :
        \/ insert(t) \/ insert_exec(t)
        \/ find_any(t) \/ find_any_exec(t)
        \/ find_all(t) \/ find_all_exec(t)
        \/ acquire_process_lock(t)
        \/ return(t)

InitLists == Init /\ variant = "flat" /\ scenario = "lists"
SpecLists == InitLists /\ [][NextLists]_vars

\* the elements of a Python list, as a set
Elements(x) == {x.l[i] : i \in 1..Len(x.l)}

\* two lists of documents hold the same documents, each as often
SameDocuments(a, b) ==
    /\ Len(a) = Len(b)
    /\ \A i \in 1..Len(a) : Count(a, a[i]) = Count(b, a[i])

\* C16: find_any(key, values) returns exactly the stored documents whose
\* list at field key has at least one element that is in values, one
\* result per stored document: two stored documents with equal content
\* are both returned.
C16_FindAnyReturnsEveryMatch ==
    \A t \in Threads :
        (pc[t] = "ret" /\ call[t].op = "find_any") =>
            SameDocuments(ret[t].docs,
                          SelectSeq(ListingOf(tables, PartitionOf(call[t])),
                                    LAMBDA d : /\ call[t].key.s \in DOMAIN d
                                               /\ d[call[t].key.s].t = "list"
                                               /\ Elements(d[call[t].key.s])
                                                      \cap Elements(call[t].value) # {}))

\* C17: find_all(key, values) returns exactly the stored documents whose
\* list at field key contains every distinct element of values: values
\* is a set, and repeating one of its elements changes nothing.
C17_FindAllTreatsValuesAsSet ==
    \A t \in Threads :
        (pc[t] = "ret" /\ call[t].op = "find_all") =>
            SameDocuments(ret[t].docs,
                          SelectSeq(ListingOf(tables, PartitionOf(call[t])),
                                    LAMBDA d : /\ call[t].key.s \in DOMAIN d
                                               /\ d[call[t].key.s].t = "list"
                                               /\ Elements(call[t].value)
                                                      \subseteq Elements(d[call[t].key.s])))

\* C18: update returns True if and only if at least one document matched
\* key == value; when none matched it returns False, raises nothing and
\* leaves the store as it was.
C18_UpdateReturnsWhetherMatched ==
    \A t \in Threads :
        (pc[t] = "ret" /\ call[t].op = "update") =>
            /\ ret[t].kind = "bool"
            /\ ret[t].b = (Matched(snap[t], call[t]) # <<>>)
            /\ (Matched(snap[t], call[t]) = <<>>) => tables = snap[t]

\* ---------------------------------------------------------- the patches
\* test_malformed_json_in_update on the flat engine: update with a dict
\* and with "not a dict" as the patch
NextPatches ==
    \E t \in Threads :
        \/ insert(t) \/ insert_exec(t)
        \/ update(t) \/ update_select(t) \/ update_exec(t)
        \/ acquire_process_lock(t)
        \/ return(t)

InitPatches == Init /\ variant = "flat" /\ scenario = "patches"
SpecPatches == InitPatches /\ [][NextPatches]_vars

\* C19: an update whose patch is not a dict raises TypeError and leaves
\* every stored document as it was, whether or not a document matches.
C19_NonDictPatchRaisesTypeError ==
    \A t \in Threads :
        (/\ pc[t] \in {"ret", "raised"}
         /\ call[t].op = "update"
         /\ call[t].doc.t # "dict") =>
            /\ ret[t].kind = "raise"
            /\ ret[t].exc = "TypeError"
            /\ pc[t] = "ret" => tables = snap[t]

\* ------------------------------------------------------------- the keys
\* test_remove_document on the tab engine: search, remove and update with
\* the keys of InKeys and with None as the value
NextKeys ==
    \E t \in Threads :
        \/ table(t) \/ table_exec(t)
        \/ insert(t) \/ insert_exec(t)
        \/ search(t) \/ search_exec(t)
        \/ remove(t) \/ remove_exec(t)
        \/ update(t) \/ update_select(t) \/ update_exec(t)
        \/ return(t)

InitKeys == Init /\ variant = "tab" /\ scenario = "keys"
SpecKeys == InitKeys /\ [][NextKeys]_vars

\* a query the validation must refuse: the key is None, not a string or
\* empty, or the value of a remove or update is None
InvalidQuery(c) ==
    \/ c.key.t # "str"
    \/ c.key.s = ""
    \/ c.op \in {"remove", "update"} /\ c.value.t = "NoneType"

NextNames ==
    \E t \in Threads :
        \/ insert(t) \/ insert_exec(t)
        \/ all(t) \/ all_exec(t)
        \/ return(t)

InitNames == Init /\ variant = "coltab" /\ scenario = "names"
SpecNames == InitNames /\ [][NextNames]_vars

\* a partition name the validation must refuse
InvalidName(x) == x.t # "str" \/ x.s = ""

\* C21: insert with a document that is not a dict raises TypeError, and
\* insert of a dict with an empty or non-string collection or table name
\* raises ValueError; the call never enters the with-block and the step
\* that raises stores nothing, so all() lists what it listed before.
C21_InvalidInsertStoresNothing ==
    /\ [](\A t \in Threads :
            (pc[t] # "idle" /\ call[t].op = "insert") =>
                /\ call[t].doc.t # "dict" =>
                       (pc[t] = "raised" /\ ret[t].kind = "raise" /\ ret[t].exc = "TypeError")
                /\ (/\ call[t].doc.t = "dict"
                    /\ InvalidName(call[t].collection) \/ InvalidName(call[t].table_name)) =>
                       (pc[t] = "raised" /\ ret[t].kind = "raise" /\ ret[t].exc = "ValueError"))
    /\ [][\A t \in Threads :
            (pc[t] = "idle" /\ pc'[t] = "raised" /\ call'[t].op = "insert") =>
                tables' = tables]_vars

C21_Witness ==
    \E t \in Threads :
        /\ pc[t] = "raised"
        /\ call[t].op = "insert"
        /\ call[t].doc = D1
        /\ call[t].collection = PyStr("")
        /\ ret[t].exc = "ValueError"
        /\ tables[Main].rows # <<>>

\* ---------------------------------------------------------- the batches
\* test_all on the flat engine: insert_many of the same two documents in
\* both orders, next to single inserts
NextBatches ==
    \E t \in Threads :
        \/ insert(t) \/ insert_exec(t)
        \/ insert_many(t) \/ insert_many_exec(t)
        \/ all(t) \/ all_exec(t)
        \/ acquire_process_lock(t)
        \/ return(t)

InitBatches == Init /\ variant = "flat" /\ scenario = "batches"
SpecBatches == InitBatches /\ [][NextBatches]_vars

\* C22: when insert_many(docs) returns, all() lists what it listed when the
\* call entered, followed by the documents of docs in the order of docs;
\* on an empty store all() equals docs.
C22_InsertManyKeepsInputOrder ==
    \A t \in Threads :
        (pc[t] = "ret" /\ call[t].op = "insert_many") =>
            ListingOf(tables, PartitionOf(call[t]))
                = ListingOf(snap[t], PartitionOf(call[t]))
                      \o [i \in 1..Len(call[t].doc.l) |-> call[t].doc.l[i].d]

C22_Witness ==
    \E t \in Threads :
        /\ pc[t] = "ret"
        /\ call[t].op = "insert_many"
        /\ call[t].doc = PyList(<<D2, D1>>)
        /\ ListingOf(tables, PartitionOf(call[t])) = <<D3.d, D2.d, D1.d>>

\* ----------------------------------------------------------- the purges
\* test_purge on the flat engine: inserts and purges
NextPurges ==
    \E t \in Threads :
        \/ insert(t) \/ insert_exec(t)
        \/ purge(t) \/ purge_exec(t)
        \/ all(t) \/ all_exec(t)
        \/ acquire_process_lock(t)
        \/ return(t)

InitPurges == Init /\ variant = "flat" /\ scenario = "purges"
SpecPurges == InitPurges /\ [][NextPurges]_vars

\* the same calls on the collections engine, with remove_collection
NextDrops ==
    \E t \in Threads :
        \/ insert(t) \/ insert_exec(t)
        \/ remove_collection(t) \/ remove_collection_exec(t)
        \/ all(t) \/ all_exec(t)
        \/ return(t)

InitDrops == Init /\ variant = "col" /\ scenario = "purges"
SpecDrops == InitDrops /\ [][NextDrops]_vars

BulkDeletes == {"purge", "remove_collection", "remove_table"}

\* the row belongs to the partition a bulk delete is addressed to
Addressed(c, row) ==
    CASE c.op = "remove_collection" -> row.collection = c.collection.s
      [] c.op = "remove_table" -> row.table_name = c.table_name.s
      [] OTHER -> TRUE

\* C23: when a bulk delete (purge, remove_collection, remove_table)
\* returns, its partition is empty and every other row is as it was, so
\* that a second application changes nothing; applied to a partition that
\* was empty it changes nothing and reports zero removed.
C23_BulkDeleteIsIdempotent ==
    \A t \in Threads :
        (pc[t] = "ret" /\ call[t].op \in BulkDeletes) =>
            /\ tables[Main].rows
                   = SelectSeq(snap[t][Main].rows, LAMBDA r : ~Addressed(call[t], r))
            /\ SelectSeq(snap[t][Main].rows, LAMBDA r : Addressed(call[t], r)) = <<>> =>
                   (tables = snap[t] /\ ret[t].kind = "int" /\ ret[t].n = 0)

\* ---------------------------------------------------------- the empties
\* find_any and find_all on the flat engine with the empty value list,
\* over documents with and without the field
NextEmpties ==
    \E t \in Threads :
        \/ insert(t) \/ insert_exec(t)
        \/ find_any(t) \/ find_any_exec(t)
        \/ find_all(t) \/ find_all_exec(t)
        \/ acquire_process_lock(t)
        \/ return(t)

InitEmpties == Init /\ variant = "flat" /\ scenario = "empties"
SpecEmpties == InitEmpties /\ [][NextEmpties]_vars

\* C24: find_all with an empty value list follows one policy in every
\* state of the store: it returns every stored document, those without the
\* field included, and never a part of them.
C24_FindAllOfNothingReturnsAll ==
    \A t \in Threads :
        (pc[t] = "ret" /\ call[t].op = "find_all" /\ call[t].value.l = <<>>) =>
            /\ ret[t].kind = "list"
            /\ ret[t].docs = ListingOf(tables, PartitionOf(call[t]))

C24_Witness ==
    \E t \in Threads :
        /\ pc[t] = "ret" /\ call[t].op = "find_all" /\ call[t].value.l = <<>>
        /\ \E i, j \in 1..Len(ret[t].docs) : ret[t].docs[i] = LAB.d /\ ret[t].docs[j] = LOther.d

\* C25: find_any with an empty value list raises nothing and returns the
\* empty list in every state of the store.
C25_FindAnyOfNothingReturnsNothing ==
    \A t \in Threads :
        (pc[t] = "ret" /\ call[t].op = "find_any" /\ call[t].value.l = <<>>) =>
            /\ ret[t].kind = "list"
            /\ ret[t].docs = <<>>

C25_Witness ==
    \E t \in Threads :
        /\ pc[t] = "ret" /\ call[t].op = "find_any" /\ call[t].value.l = <<>>
        /\ ret[t].kind = "list"
        /\ \E i \in 1..Len(tables[Main].rows) : tables[Main].rows[i].data = dumps(LAB.d)

\* ------------------------------------------------------------- the pool
\* test_concurrent_inserts on the table engine: inserts and updates of one
\* table submitted to the worker pool
NextPool ==
    \/ execute_async
    \/ \E t \in Threads :
          \/ table(t) \/ table_exec(t)
          \/ worker_take(t) \/ worker_run(t)
          \/ insert_exec(t)
          \/ update_select(t) \/ update_exec(t)
          \/ return(t)

InitPool == Init /\ variant = "tab" /\ scenario = "pool"
SpecPool == InitPool /\ [][NextPool]_vars

\* a submitted operation run alone on a file
JobAlone(tbls, c) ==
    CASE c.op = "insert" -> ExecInsert(tbls, insert_query(c))
      [] c.op = "update" -> UpdateAlone(tbls, c)
      [] OTHER -> tbls

\* the operations of work run one after another in the order perm
RECURSIVE JobsInOrder(_, _, _, _)
JobsInOrder(tbls, work, perm, i) ==
    IF i > Len(work) THEN tbls
    ELSE JobsInOrder(JobAlone(tbls, work[perm[i]]), work, perm, i + 1)

\* the file with its tables as they were created, before any submission
Created == [n \in TableNames |-> IF tables[n].exists THEN EmptyTable ELSE NoTable]

\* every submitted operation has been taken and has returned
Quiescent ==
    /\ executor.taken = Len(executor.work)
    /\ \A t \in Threads : pc[t] = "idle"

\* C26: an operation submitted to the worker pool runs atomically under
\* the engine lock: when it returns, the store is the store it found on
\* entering the with-block, changed by this operation alone; and when the
\* submitted operations have all run, the store is in the state that
\* running them one after another in some order, not necessarily the
\* order of submission, leads to.
C26_PoolRunsAreSerializable ==
    /\ \A t \in Threads :
          (pc[t] = "ret" /\ call[t].op \in {"insert", "update"}) =>
              tables = JobAlone(snap[t], call[t])
    /\ Quiescent =>
          \E perm \in Permutations(1..Len(executor.work)) :
              tables = JobsInOrder(Created, executor.work, perm, 1)

\* three operations have run, and not in the order of their submission
C26_Witness ==
    /\ Quiescent
    /\ Len(executor.work) = 3
    /\ \E i \in 1..3 : executor.work[i].op = "update"
    /\ tables # JobsInOrder(Created, executor.work, [i \in 1..3 |-> i], 1)

\* ---------------------------------------------------------- the numbers
\* inserts, removes and purges on the flat engine
NextNumbers ==
    \E t \in Threads :
        \/ insert(t) \/ insert_exec(t)
        \/ remove(t) \/ remove_exec(t)
        \/ purge(t) \/ purge_exec(t)
        \/ acquire_process_lock(t)
        \/ return(t)

InitNumbers == Init /\ variant = "flat" /\ scenario = "purges"
SpecNumbers == InitNumbers /\ [][NextNumbers]_vars

\* the sequence numbers of the rows a table holds
IdsOf(tbls, n) == {tbls[n].rows[i].id : i \in 1..Len(tbls[n].rows)}

\* C27: a table's counter of assigned numbers is never below a number one
\* of its rows holds and never decreases, and every row that appears gets
\* a number above the counter: above every number assigned before in the
\* table, whether its document is still there, was removed or was purged;
\* no two rows share a number.
C27_SequenceNumbersNeverReused ==
    /\ [](\A n \in TableNames :
            /\ \A id \in IdsOf(tables, n) : id <= tables[n].seq
            /\ Cardinality(IdsOf(tables, n)) = Len(tables[n].rows))
    /\ [][\A n \in TableNames :
            /\ tables'[n].seq >= tables[n].seq
            /\ \A id \in IdsOf(tables', n) \ IdsOf(tables, n) : id > tables[n].seq]_vars

\* an insert has returned after a purge or remove emptied the table: its
\* document is the only one and its number is not 1
C27_Witness ==
    \E t \in Threads :
        /\ pc[t] = "ret" /\ call[t].op = "insert"
        /\ Len(tables[Main].rows) = 1
        /\ tables[Main].rows[1].id > 1

\* ----------------------------------------------------------- the renames
\* tables t1 and t2 with up to two handles, renamed to t2 and to t3
NextRenames ==
    \E t \in Threads :
        \/ table(t) \/ table_exec(t)
        \/ insert(t) \/ insert_exec(t)
        \/ all(t) \/ all_exec(t)
        \/ rename(t) \/ rename_exec(t)
        \/ return(t)

InitRenames == Init /\ variant = "tab" /\ scenario = "renames"
SpecRenames == InitRenames /\ [][NextRenames]_vars

\* what all() of a KenobiTable named n returns on a given file
Listed(tbls, n) ==
    LoadAll(ExecSelect(tbls, StmtWindow(<<"SELECT data FROM ", n, " LIMIT ? OFFSET ?">>,
                                        <<>>, DefaultLimit, DefaultOffset), 0, "partition"))

\* the old and the new name of the rename of thread t
OldName(t) == SqlName(handle[call[t].h]).name
NewName(t) == SqlName(call[t].table_name.s).name

\* C28: the step in which rename(new_name) succeeds puts under new_name the
\* rows the old name had (documents, order and sequence numbers), leaves no
\* table of the old name and changes no other table; a rename that raises
\* changes nothing. No other step moves rows between names, so that the
\* documents are at no time under both names or under neither.
C28_RenamePreservesMembership ==
    [][\A t \in Threads :
          (pc[t] = "run" /\ call[t].op = "rename" /\ pc'[t] = "ret") =>
              IF ret'[t].kind = "raise" THEN tables' = tables /\ handle' = handle
              ELSE /\ Listed(tables', NewName(t)) = Listed(tables, OldName(t))
                   /\ tables'[NewName(t)] = tables[OldName(t)]
                   /\ ~tables'[OldName(t)].exists
                   /\ \A n \in TableNames \ {OldName(t), NewName(t)} :
                          tables'[n] = tables[n]]_vars

\* a rename has moved two documents to t3 while t2 holds a document
C28_Witness ==
    \E t \in Threads :
        /\ pc[t] = "ret" /\ call[t].op = "rename" /\ ret[t].kind # "raise"
        /\ Len(tables["t3"].rows) = 2
        /\ tables["t3"].rows[1].data # tables["t3"].rows[2].data
        /\ ~tables["t1"].exists
        /\ Len(tables["t2"].rows) = 1

\* ------------------------------------------------------- the identifiers
\* table() and rename() with names that are not words: [a b] and a-b
NextIdents ==
    \E t \in Threads :
        \/ table(t) \/ table_exec(t)
        \/ rename(t) \/ rename_exec(t)
        \/ insert(t) \/ insert_exec(t)
        \/ all(t) \/ all_exec(t)
        \/ return(t)

InitIdents == Init /\ variant = "tab" /\ scenario = "idents"
SpecIdents == InitIdents /\ [][NextIdents]_vars

\* a name with a character that is no letter, digit or underscore
NonWord(x) == isinstance(x, "str") /\ x.s # "" /\ ~IsWord(Spelling(x.s))

\* C29: a call of table(name) or rename(new_name) whose name has a
\* character other than a letter, a digit or an underscore ends with the
\* exception of the argument validation: it never enters the with-block,
\* where the statement with the name in its text is executed.
C29_NonWordIdentifierRejectedFirst ==
    \A t \in Threads :
        (call[t].op \in {"table", "rename"} /\ NonWord(call[t].table_name)) =>
            pc[t] = "raised"

\* --------------------------------------------------- keys of find_any
\* test_find_any on the flat engine with the keys "key", None and 0.1234
NextNoKeys ==
    \E t \in Threads :
        \/ insert(t) \/ insert_exec(t)
        \/ find_any(t) \/ find_any_exec(t)
        \/ acquire_process_lock(t)
        \/ return(t)

InitNoKeys == Init /\ variant = "flat" /\ scenario = "nokeys"
SpecNoKeys == InitNoKeys /\ [][NextNoKeys]_vars

\* C30: when find_any returns from a call whose key is None or another
\* value that is not a string, it has not raised, its result is the empty
\* list and the store is as it was when the call entered.
C30_FindAnyNonStringKeyFindsNothing ==
    \A t \in Threads :
        (pc[t] = "ret" /\ call[t].op = "find_any" /\ ~isinstance(call[t].key, "str")) =>
            /\ ret[t].kind = "list"
            /\ ret[t].docs = <<>>
            /\ tables = snap[t]

\* ----------------------------------------------------------- the windows
\* the collection engine on a file that holds more documents than the
\* default window: all, search and remove
NextWindows ==
    \E t \in Threads :
        \/ all(t) \/ all_exec(t)
        \/ search(t) \/ search_exec(t)
        \/ remove(t) \/ remove_exec(t)
        \/ return(t)

InitWindows == Init /\ variant = "col" /\ scenario = "windows"
SpecWindows == InitWindows /\ [][NextWindows]_vars

\* the rows the statement of a read selects before LIMIT and OFFSET
Selected(tbls, c) ==
    IF c.op = "all" THEN Filter(tbls[Main].rows, all_query(c), 0, "partition")
    ELSE Filter(tbls[Main].rows, search_query(c), 0, "kv")

\* C31: all and search with the default limit and offset return the first
\* min(n, 100) of the n documents their statement selects, which stand in
\* the order of their sequence numbers; with any limit >= 0 the result has
\* at most limit documents.
C31_DefaultWindowIsHundred ==
    \A t \in Threads :
        (pc[t] = "ret" /\ call[t].op \in {"all", "search"}) =>
            LET m == Selected(tables, call[t])
                n == IF Len(m) < 100 THEN Len(m) ELSE 100
            IN /\ \A i, j \in 1..Len(m) : i < j => m[i].id < m[j].id
               /\ (call[t].limit = DefaultLimit /\ call[t].offset = DefaultOffset) =>
                      ret[t].docs = [i \in 1..n |-> loads(m[i].data)]
               /\ call[t].limit >= 0 => Len(ret[t].docs) <= call[t].limit

\* all() with the defaults has returned 100 of 101 documents
C31_Witness ==
    \E t \in Threads :
        /\ pc[t] = "ret" /\ call[t].op = "all"
        /\ call[t].limit = DefaultLimit /\ call[t].offset = DefaultOffset
        /\ Len(Selected(tables, call[t])) = 101
        /\ Len(ret[t].docs) = 100
        /\ ret[t].docs[100] = Numbered(100).d

\* ------------------------------------------------------------ the waits
\* the flat engine with callers that stand at `with self._lock`: writes
\* (both locks), a read (the thread lock only), an insert that fails its
\* validation and an update whose patch raises inside the with-block
WaitsStep(t) ==
    \/ insert(t) \/ insert_exec(t)
    \/ update(t) \/ update_select(t) \/ update_exec(t)
    \/ all(t) \/ all_exec(t)
    \/ acquire_lock(t)
    \/ acquire_process_lock(t)
    \/ return(t)

NextWaits == \E t \in Threads : WaitsStep(t)

InitWaits == Init /\ variant = "flat" /\ scenario = "waits"

\* fair scheduling: a thread that can go on does, and a caller at `with
\* self._lock` gets the lock if it is free again and again
SpecWaits ==
    /\ InitWaits
    /\ [][NextWaits]_vars
    /\ \A t \in Threads : WF_vars(WaitsStep(t)) /\ SF_vars(acquire_lock(t))

NextUpdates ==
    \E t \in Threads :
        \/ insert(t) \/ insert_exec(t)
        \/ update(t) \/ update_select(t) \/ update_exec(t)
        \/ acquire_process_lock(t)
        \/ return(t)

InitUpdates == Init /\ variant = "flat" /\ scenario = "updates"
SpecUpdates == InitUpdates /\ [][NextUpdates]_vars

NextCloses ==
    \/ execute_async
    \/ \E t \in Threads :
          \/ table(t) \/ table_exec(t)
          \/ worker_take(t) \/ worker_run(t)
          \/ insert_exec(t)
          \/ update_select(t) \/ update_exec(t)
          \/ all(t) \/ all_exec(t)
          \/ close(t) \/ close_enter(t) \/ close_exec(t)
          \/ return(t)

InitCloses == Init /\ variant = "tab" /\ scenario = "closes"
SpecCloses == InitCloses /\ [][NextCloses]_vars

\* C34: while the connection is closed no submitted item waits in the
\* queue or is being run, and none has ended with the error of a closed
\* connection; once close() has called shutdown the queue takes no further
\* item, and the caller of a submission gets an error.
C34_CloseWaitsForThePool ==
    /\ [](/\ Closed => (executor.taken = Len(executor.work) /\ executor.running = {})
          /\ \A t \in executor.running : ret[t].exc # "ProgrammingError"
          /\ \A t \in Threads :
                (pc[t] = "raised" /\ call[t].op = "execute_async") =>
                    (executor.shutdown /\ ret[t].exc = "RuntimeError"))
    /\ [][executor.shutdown => (executor'.shutdown /\ executor'.work = executor.work)]_vars

\* the connection was closed after two submitted items ran, and a later
\* submission was refused
C34_Witness ==
    /\ Closed
    /\ Len(executor.work) = 2
    /\ \E n \in TableNames : Len(tables[n].rows) >= 1
    /\ \E t \in Threads : pc[t] = "raised" /\ call[t].op = "execute_async"

\* ------------------------------------------------------------ the labels
\* the collection+table engine: inserts into three partitions, and the
\* bulk deletes by collection and by table
NextLabels ==
    \E t \in Threads :
        \/ insert(t) \/ insert_exec(t)
        \/ remove_collection(t) \/ remove_collection_exec(t)
        \/ remove_table(t) \/ remove_table_exec(t)
        \/ return(t)

InitLabels == Init /\ variant = "coltab" /\ scenario = "purges"
SpecLabels == InitLabels /\ [][NextLabels]_vars

\* C35: when remove_collection(c) returns, the rows labelled with
\* collection c are gone, whatever their table label, every other row is
\* as it was and in its place, and the returned number is the number of
\* rows that went; likewise remove_table(t) and the rows labelled with
\* table t, whatever their collection.
C35_BulkDeleteByLabel ==
    \A t \in Threads :
        (pc[t] = "ret" /\ call[t].op \in {"remove_collection", "remove_table"}) =>
            LET old == snap[t][Main].rows
                gone == {i \in 1..Len(old) :
                            IF call[t].op = "remove_collection"
                            THEN old[i].collection = call[t].collection.s
                            ELSE old[i].table_name = call[t].table_name.s}
                kept(i) == Cardinality({j \in 1..i : j \notin gone})
            IN /\ Len(tables[Main].rows) = Len(old) - Cardinality(gone)
               /\ \A i \in 1..Len(old) : i \notin gone => tables[Main].rows[kept(i)] = old[i]
               /\ ret[t].kind = "int"
               /\ ret[t].n = Cardinality(gone)

\* remove_collection has deleted two documents of one collection that
\* stood in different tables, and left a document of another collection
C35_Witness ==
    \E t \in Threads :
        /\ pc[t] = "ret" /\ call[t].op = "remove_collection" /\ ret[t].n = 2
        /\ \E i, j \in 1..Len(snap[t][Main].rows) :
              /\ snap[t][Main].rows[i].collection = call[t].collection.s
              /\ snap[t][Main].rows[j].collection = call[t].collection.s
              /\ snap[t][Main].rows[i].table_name # snap[t][Main].rows[j].table_name
        /\ Len(tables[Main].rows) = 1

\* ------------------------------------------------------ dropped tables
\* the table engine: handles, the operations of a handle, rename and drop
NextDropTable ==
    \E t \in Threads :
        \/ table(t) \/ table_exec(t)
        \/ insert(t) \/ insert_exec(t)
        \/ all(t) \/ all_exec(t)
        \/ search(t) \/ search_exec(t)
        \/ remove(t) \/ remove_exec(t)
        \/ update(t) \/ update_select(t) \/ update_exec(t)
        \/ rename(t) \/ rename_exec(t)
        \/ drop(t) \/ drop_exec(t)
        \/ return(t)

InitDropTable == Init /\ variant = "tab" /\ scenario = "drops"
SpecDropTable == InitDropTable /\ [][NextDropTable]_vars

\* the file holds no table of the name the handle of the call carries
Dropped(t) == ~tables[TableOf(call[t])].exists

====
